---------------------------- MODULE Spec2Model ----------------------------
(***************************************************************************)
(* A model of the SMILES tokenizer (TokenIter) and of the entry point      *)
(* Smiles::from_str.  A character is a one-character string; an input is   *)
(* a sequence of characters.  The cursor `chars` counts the characters     *)
(* already taken from the Peekable<CharIndices>; byte offsets are computed *)
(* from the UTF-8 length of the characters before the cursor.              *)
(***************************************************************************)
EXTENDS Integers, Sequences, FiniteSets, TLC

(* ------------------------------ characters ------------------------------ *)

UpperSeq == <<"A", "B", "C", "D", "E", "F", "G", "H", "I", "J", "K", "L", "M", "N", "O", "P", "Q", "R", "S", "T", "U", "V", "W", "X", "Y", "Z">>
LowerSeq == <<"a", "b", "c", "d", "e", "f", "g", "h", "i", "j", "k", "l", "m", "n", "o", "p", "q", "r", "s", "t", "u", "v", "w", "x", "y", "z">>
DigitSeq == <<"0", "1", "2", "3", "4", "5", "6", "7", "8", "9">>

UpperLetters == {UpperSeq[i] : i \in 1..26}
LowerLetters == {LowerSeq[i] : i \in 1..26}
Digits == {DigitSeq[i] : i \in 1..10}

\* Characters outside ASCII are written by their code point.
TwoByteChars == {"U+00E9"}
ThreeByteChars == {"U+20AC"}

\* The None of an Option<char>.
None == "None"
\* The payload of an error variant that carries none.
NoArg == "NoArg"

is_ascii_alphabetic(c) == c \in UpperLetters \cup LowerLetters
is_ascii_lowercase(c) == c \in LowerLetters
is_ascii_digit(c) == c \in Digits
to_digit(c) == CHOOSE d \in 0..9 : DigitSeq[d + 1] = c
to_ascii_uppercase(c) ==
  IF c \in LowerLetters THEN UpperSeq[CHOOSE i \in 1..26 : LowerSeq[i] = c] ELSE c
len_utf8(c) == IF c \in TwoByteChars THEN 2 ELSE IF c \in ThreeByteChars THEN 3 ELSE 1

\* The byte offset of the character after the first p characters of s
\* (what CharIndices pairs with it), and s.len() for p = Len(s): one byte
\* for each character, and the further bytes of those outside ASCII.
ByteOffset(s, p) ==
  p + Cardinality({i \in 1..p : len_utf8(s[i]) >= 2})
    + Cardinality({i \in 1..p : len_utf8(s[i]) >= 3})

(* ------------------------------- elements ------------------------------- *)

\* Element::from_str of elements_rs: the symbols of the periodic table, each
\* the tuple of its characters.
Elements ==
  {<<"H">>, <<"H", "e">>, <<"L", "i">>, <<"B", "e">>, <<"B">>, <<"C">>, <<"N">>, <<"O">>,
   <<"F">>, <<"N", "e">>, <<"N", "a">>, <<"M", "g">>, <<"A", "l">>, <<"S", "i">>, <<"P">>,
   <<"S">>, <<"C", "l">>, <<"A", "r">>, <<"K">>, <<"C", "a">>, <<"S", "c">>, <<"T", "i">>,
   <<"V">>, <<"C", "r">>, <<"M", "n">>, <<"F", "e">>, <<"C", "o">>, <<"N", "i">>, <<"C", "u">>,
   <<"Z", "n">>, <<"G", "a">>, <<"G", "e">>, <<"A", "s">>, <<"S", "e">>, <<"B", "r">>,
   <<"K", "r">>, <<"R", "b">>, <<"S", "r">>, <<"Y">>, <<"Z", "r">>, <<"N", "b">>, <<"M", "o">>,
   <<"T", "c">>, <<"R", "u">>, <<"R", "h">>, <<"P", "d">>, <<"A", "g">>, <<"C", "d">>,
   <<"I", "n">>, <<"S", "n">>, <<"S", "b">>, <<"T", "e">>, <<"I">>, <<"X", "e">>, <<"C", "s">>,
   <<"B", "a">>, <<"L", "a">>, <<"C", "e">>, <<"P", "r">>, <<"N", "d">>, <<"P", "m">>,
   <<"S", "m">>, <<"E", "u">>, <<"G", "d">>, <<"T", "b">>, <<"D", "y">>, <<"H", "o">>,
   <<"E", "r">>, <<"T", "m">>, <<"Y", "b">>, <<"L", "u">>, <<"H", "f">>, <<"T", "a">>, <<"W">>,
   <<"R", "e">>, <<"O", "s">>, <<"I", "r">>, <<"P", "t">>, <<"A", "u">>, <<"H", "g">>,
   <<"T", "l">>, <<"P", "b">>, <<"B", "i">>, <<"P", "o">>, <<"A", "t">>, <<"R", "n">>,
   <<"F", "r">>, <<"R", "a">>, <<"A", "c">>, <<"T", "h">>, <<"P", "a">>, <<"U">>, <<"N", "p">>,
   <<"P", "u">>, <<"A", "m">>, <<"C", "m">>, <<"B", "k">>, <<"C", "f">>, <<"E", "s">>,
   <<"F", "m">>, <<"M", "d">>, <<"N", "o">>, <<"L", "r">>, <<"R", "f">>, <<"D", "b">>,
   <<"S", "g">>, <<"B", "h">>, <<"H", "s">>, <<"M", "t">>, <<"D", "s">>, <<"R", "g">>,
   <<"C", "n">>, <<"N", "h">>, <<"F", "l">>, <<"M", "c">>, <<"L", "v">>, <<"T", "s">>,
   <<"O", "g">>}

\* Option<T> other than of a character: Nothing, or Some(v).
Nothing == <<>>
Some(v) == <<v>>

try_candidate(val) == IF val \in Elements THEN Some(val) ELSE Nothing

\* AtomSymbol
SymElement(e) == [kind |-> "Element", el |-> e]
WildCard == [kind |-> "WildCard", el |-> <<>>]
Unspecified == [kind |-> "Unspecified", el |-> <<>>]

(* --------------------------- results of a step --------------------------- *)

\* A step on the stream returns the cursor it leaves and Ok(val) or Err(val).
Ok(p, v) == [ok |-> TRUE, p |-> p, val |-> v]
Err(p, kind, arg) == [ok |-> FALSE, p |-> p, val |-> [kind |-> kind, arg |-> arg]]

peek_char(s, p) == IF p < Len(s) THEN s[p + 1] ELSE None

\* A faulty variant of current_end: the offset of the last character taken
\* instead of the offset of the next one.
current_end_last_taken(s, p) == IF p = 0 THEN 0 ELSE ByteOffset(s, p - 1)

current_end(s, p) == IF p < Len(s) THEN ByteOffset(s, p) ELSE ByteOffset(s, Len(s))

(* ---------------------------- integer folding ---------------------------- *)

\* u32::MAX = U32Hi * Limb + U32Lo; the accumulator `amount` is kept as the
\* two limbs <<hi, lo>> so that the checked u32 arithmetic is exact.
Limb == 100000
U32Hi == 42949
U32Lo == 67295
U8Max == 255
U16Max == 65535
I8Max == 127

\* The while loop of try_fold_number: the cursor, seen_any, whether a checked
\* operation returned None, and the amount.
RECURSIVE FoldDigits(_, _, _, _, _)
FoldDigits(s, p, hi, lo, seen_any) ==
  IF peek_char(s, p) = None \/ ~is_ascii_digit(peek_char(s, p))
  THEN [p |-> p, seen_any |-> seen_any, overflow |-> FALSE, hi |-> hi, lo |-> lo]
  ELSE LET low == lo * 10 + to_digit(s[p + 1])
           lo2 == low % Limb
           hi2 == hi * 10 + (low \div Limb)
       IN  IF hi2 > U32Hi \/ (hi2 = U32Hi /\ lo2 > U32Lo)
           THEN [p |-> p + 1, seen_any |-> TRUE, overflow |-> TRUE, hi |-> hi, lo |-> lo]
           ELSE FoldDigits(s, p + 1, hi2, lo2, TRUE)

\* A faulty variant of fold_result: an amount above B::MAX is truncated to
\* the width of B.
fold_result_wrapping(f, max) ==
  IF ~f.seen_any THEN [some |-> FALSE, ok |-> TRUE, p |-> f.p, val |-> 0]
  ELSE IF f.overflow
       THEN [some |-> TRUE, ok |-> FALSE, p |-> f.p,
             val |-> [kind |-> "IntegerOverflow", arg |-> NoArg]]
       ELSE [some |-> TRUE, ok |-> TRUE, p |-> f.p, val |-> f.lo % (max + 1)]

\* The end of try_fold_number::<B>, B::MAX = max, on the state f the loop
\* leaves: some = FALSE is None; otherwise Some(Ok(val)) or
\* Some(Err(IntegerOverflow)).
fold_result(f, max) ==
  IF ~f.seen_any THEN [some |-> FALSE, ok |-> TRUE, p |-> f.p, val |-> 0]
  ELSE IF f.overflow \/ f.hi > 0 \/ f.lo > max
       THEN [some |-> TRUE, ok |-> FALSE, p |-> f.p,
             val |-> [kind |-> "IntegerOverflow", arg |-> NoArg]]
       ELSE [some |-> TRUE, ok |-> TRUE, p |-> f.p, val |-> f.lo]

try_fold_number(s, p, max) == fold_result(FoldDigits(s, p, 0, 0, FALSE), max)

(* --------------------------- symbol resolution --------------------------- *)

InBracketAromatic ==
  {<<"B">>, <<"C">>, <<"N">>, <<"O">>, <<"P">>, <<"S">>, <<"S", "e">>, <<"A", "s">>}
OutOfBracketAromatic == {<<"B">>, <<"C">>, <<"N">>, <<"O">>, <<"S">>, <<"P">>}

\* A faulty variant of aromatic_allowed: one whitelist, in and out of brackets.
aromatic_allowed_anywhere(in_bracket, element) == element \in OutOfBracketAromatic

aromatic_allowed(in_bracket, element) ==
  IF in_bracket THEN element \in InBracketAromatic ELSE element \in OutOfBracketAromatic

aromatic_from_element(p, in_bracket, element) ==
  IF aromatic_allowed(in_bracket, element)
  THEN Ok(p, TRUE)
  ELSE Err(p, "InvalidAromaticElement", element)

\* The symbol and the aromatic flag a resolution returns.
Resolved(symbol, aromatic) == [symbol |-> symbol, aromatic |-> aromatic]

\* The two-letter attempt of an aromatic candidate (lines 211-218).
two_letter_aromatic(s, p, char_1, in_bracket) ==
  LET candidate == <<to_ascii_uppercase(char_1), s[p + 1]>>
      aromatic == aromatic_from_element(p + 1, in_bracket, candidate)
  IN  IF aromatic.ok THEN Ok(p + 1, Resolved(SymElement(candidate), aromatic.val))
      ELSE aromatic

\* The two-letter attempt of an uppercase first letter (lines 219-225).
two_letter_plain(s, p, char_1) ==
  Ok(p + 1, Resolved(SymElement(<<char_1, s[p + 1]>>), FALSE))

\* The one-letter resolution (lines 228-243).
one_letter(s, p, char_1, in_bracket) ==
  LET is_aromatic_candidate == is_ascii_lowercase(char_1)
      one == IF is_aromatic_candidate THEN <<to_ascii_uppercase(char_1)>> ELSE <<char_1>>
      aromatic == aromatic_from_element(p, in_bracket, one)
  IN  IF try_candidate(one) # Nothing
      THEN IF is_aromatic_candidate
           THEN IF aromatic.ok THEN Ok(p, Resolved(SymElement(one), aromatic.val))
                ELSE aromatic
           ELSE Ok(p, Resolved(SymElement(one), FALSE))
      ELSE Err(p, "InvalidElementName", char_1)

\* try_element_from_first: char_1 has been taken, the cursor is p.
try_element_from_first(s, p, char_1, in_bracket) ==
  IF char_1 = "*" THEN Ok(p, Resolved(WildCard, FALSE))
  ELSE IF ~is_ascii_alphabetic(char_1) THEN Err(p, "MissingElement", NoArg)
  ELSE LET is_aromatic_candidate == is_ascii_lowercase(char_1)
           char_2 == peek_char(s, p)
           two == char_2 # None /\ is_ascii_alphabetic(char_2) /\ is_ascii_lowercase(char_2)
       IN  IF two /\ is_aromatic_candidate
                  /\ try_candidate(<<to_ascii_uppercase(char_1), char_2>>) # Nothing
           THEN two_letter_aromatic(s, p, char_1, in_bracket)
           ELSE IF two /\ ~is_aromatic_candidate
                       /\ try_candidate(<<char_1, char_2>>) # Nothing
           THEN two_letter_plain(s, p, char_1)
           ELSE one_letter(s, p, char_1, in_bracket)

try_element(s, p, in_bracket) ==
  IF peek_char(s, p) = None THEN Err(p, "MissingElement", NoArg)
  ELSE try_element_from_first(s, p + 1, s[p + 1], in_bracket)

OrganicSubset ==
  {<<"B">>, <<"C">>, <<"N">>, <<"O">>, <<"P">>, <<"S">>, <<"F">>, <<"C", "l">>,
   <<"B", "r">>, <<"I">>}

\* A faulty variant of valid_unbracketed: only the elements of the organic
\* subset pass, the wildcard does not.
valid_unbracketed_elements(symbol) ==
  symbol.kind = "Element" /\ symbol.el \in OrganicSubset

\* A faulty variant of valid_unbracketed: every resolved symbol passes.
valid_unbracketed_any(symbol) == symbol.kind # "Unspecified"

valid_unbracketed(symbol) ==
  CASE symbol.kind = "Element" -> symbol.el \in OrganicSubset
    [] symbol.kind = "WildCard" -> TRUE
    [] symbol.kind = "Unspecified" -> FALSE

(* ------------------------------- chirality ------------------------------- *)

Chirality(tag, n) == [tag |-> tag, n |-> n]
At == Chirality("At", 0)
AtAt == Chirality("AtAt", 0)

\* Chirality::try_th .. try_oh: the range check of each numbered form.
try_chirality_num(p, tag, lo, hi, num) ==
  IF lo <= num /\ num <= hi THEN Ok(p, Some(Chirality(tag, num)))
  ELSE Err(p, "InvalidChirality", NoArg)
try_th(p, num) == try_chirality_num(p, "TH", 1, 2, num)
try_al(p, num) == try_chirality_num(p, "AL", 1, 2, num)
try_sp(p, num) == try_chirality_num(p, "SP", 1, 3, num)
try_tb(p, num) == try_chirality_num(p, "TB", 1, 20, num)
try_oh(p, num) == try_chirality_num(p, "OH", 1, 30, num)

\* `.ok_or(InvalidChirality)??` on the number num and the constructor of the
\* tag that follows it.
chirality_of_number(tag, num) ==
  IF ~num.some THEN Err(num.p, "InvalidChirality", NoArg)
  ELSE IF ~num.ok THEN Err(num.p, num.val.kind, num.val.arg)
  ELSE CASE tag = "TH" -> try_th(num.p, num.val)
         [] tag = "TB" -> try_tb(num.p, num.val)
         [] tag = "SP" -> try_sp(num.p, num.val)
         [] tag = "OH" -> try_oh(num.p, num.val)

\* The number of a tag; the cursor p is after the tag's second letter.
chirality_number(s, p, tag) == chirality_of_number(tag, try_fold_number(s, p, U8Max))

\* The 'T' arm: the 'T' is matched by peeking and is not taken, so the
\* inner match peeks at the same character.
chirality_T(s, p) ==
  LET c == peek_char(s, p)
  IN  IF c = None THEN Err(p, "UnexpectedEndOfString", NoArg)
      ELSE IF c = "H" THEN chirality_number(s, p + 1, "TH")
      ELSE IF c = "B" THEN chirality_number(s, p + 1, "TB")
      ELSE Err(p, "InvalidChirality", NoArg)

\* The 'A' | 'S' arm: the letter is taken, then only 'P' is accepted.
chirality_AS(s, p) ==
  LET c == peek_char(s, p + 1)
  IN  IF c = None THEN Err(p + 1, "UnexpectedEndOfString", NoArg)
      ELSE IF c = "P" THEN chirality_number(s, p + 2, "SP")
      ELSE Err(p + 1, "InvalidChirality", NoArg)

\* The 'O' arm.
chirality_O(s, p) ==
  LET c == peek_char(s, p + 1)
  IN  IF c = None THEN Err(p + 1, "UnexpectedEndOfString", NoArg)
      ELSE IF c = "H" THEN chirality_number(s, p + 2, "OH")
      ELSE Err(p + 1, "InvalidChirality", NoArg)

\* try_chirality: Ok(Nothing) when the next character is not '@'.
try_chirality(s, p) ==
  IF peek_char(s, p) # "@" THEN Ok(p, Nothing)
  ELSE LET char_2 == peek_char(s, p + 1)
       IN  IF char_2 = None THEN Err(p + 1, "UnexpectedEndOfString", NoArg)
           ELSE IF char_2 = "@" THEN Ok(p + 2, Some(AtAt))
           ELSE IF char_2 = "T" THEN chirality_T(s, p + 1)
           ELSE IF char_2 \in {"A", "S"} THEN chirality_AS(s, p + 1)
           ELSE IF char_2 = "O" THEN chirality_O(s, p + 1)
           ELSE IF char_2 \in {"H", "-", "+", ":", "]"} THEN Ok(p + 1, Some(At))
           ELSE Err(p + 1, "InvalidChirality", NoArg)

(* ------------------- hydrogen count, charge and class ------------------- *)

\* HydrogenCount
Explicit(n) == [kind |-> "Explicit", n |-> n]
HUnspecified == [kind |-> "Unspecified", n |-> 0]

\* HydrogenCount::new(Some(h?)), or one hydrogen when no number follows 'H'.
hydrogens_of_number(h) ==
  IF ~h.some THEN Ok(h.p, Explicit(1))
  ELSE IF ~h.ok THEN Err(h.p, h.val.kind, h.val.arg)
  ELSE Ok(h.p, Explicit(h.val))

hydrogen_count(s, p) ==
  IF peek_char(s, p) = "H" THEN hydrogens_of_number(try_fold_number(s, p + 1, U8Max))
  ELSE Ok(p, HUnspecified)

ChargeMin == -15
ChargeMax == 15

\* A faulty variant of Charge::try_new: a value out of range is clamped to
\* the nearest bound instead of being refused.
Charge_try_new_clamped(p, num) ==
  IF num < ChargeMin THEN Ok(p, ChargeMin)
  ELSE IF num > ChargeMax THEN Ok(p, ChargeMax)
  ELSE Ok(p, num)

\* Charge::try_new; the value of a Charge is the i8 it wraps.
Charge_try_new(p, num) ==
  IF ChargeMin <= num /\ num <= ChargeMax THEN Ok(p, num)
  ELSE IF num < 0 THEN Err(p, "ChargeUnderflow", num)
  ELSE Err(p, "ChargeOverflow", num)

Charge_default == 0

\* Charge::try_new(sign * possible_num?), or the single sign when no number
\* follows it.
charge_of_number(sign, possible_num) ==
  IF ~possible_num.some THEN Charge_try_new(possible_num.p, sign)
  ELSE IF ~possible_num.ok
  THEN Err(possible_num.p, possible_num.val.kind, possible_num.val.arg)
  ELSE Charge_try_new(possible_num.p, sign * possible_num.val)

\* A faulty variant of charge_after_sign: the second sign is taken but
\* not counted.
charge_after_sign_lone(s, p, sign_char, sign) ==
  IF peek_char(s, p) = sign_char THEN Charge_try_new(p + 1, sign)
  ELSE charge_of_number(sign, try_fold_number(s, p, I8Max))

\* One sign of try_charge: sign is 1 for '+' and -1 for '-'; the cursor p is
\* after the sign.
charge_after_sign(s, p, sign_char, sign) ==
  IF peek_char(s, p) = sign_char THEN Charge_try_new(p + 1, sign * 2)
  ELSE charge_of_number(sign, try_fold_number(s, p, I8Max))

try_charge(s, p) ==
  IF peek_char(s, p) = "-" THEN charge_after_sign(s, p + 1, "-", -1)
  ELSE IF peek_char(s, p) = "+" THEN charge_after_sign(s, p + 1, "+", 1)
  ELSE Ok(p, Charge_default)

\* The number of a class, or InvalidClass when no number follows ':'.
class_of_number(possible_num) ==
  IF ~possible_num.some THEN Err(possible_num.p, "InvalidClass", NoArg)
  ELSE IF ~possible_num.ok
  THEN Err(possible_num.p, possible_num.val.kind, possible_num.val.arg)
  ELSE Ok(possible_num.p, possible_num.val)

try_class(s, p) ==
  IF peek_char(s, p) = ":" THEN class_of_number(try_fold_number(s, p + 1, U16Max))
  ELSE Ok(p, 0)

(* --------------------------------- tokens --------------------------------- *)

\* BracketAtom, as BracketAtomBuilder::build freezes it.
BracketAtom(symbol, isotope, aromatic, hydrogens, charge, class, chirality) ==
  [symbol |-> symbol, isotope_mass_number |-> isotope, aromatic |-> aromatic,
   hydrogens |-> hydrogens, charge |-> charge, class |-> class,
   chirality |-> chirality]

UnbracketedAtom(symbol, aromatic) == [symbol |-> symbol, aromatic |-> aromatic]

\* Token: the variant and its payload.
Token(type, val) == [type |-> type, val |-> val]
NonBond == Token("NonBond", NoArg)
LeftParentheses == Token("LeftParentheses", NoArg)
RightParentheses == Token("RightParentheses", NoArg)

RingNumMax == 99

\* A faulty variant of RingNum::try_new: 100 is let through.
RingNum_try_new_100(p, n) ==
  IF n <= RingNumMax + 1 THEN Ok(p, n) ELSE Err(p, "RingNumberOverflow", n)

\* RingNum::try_new
RingNum_try_new(p, n) ==
  IF n <= RingNumMax THEN Ok(p, n) ELSE Err(p, "RingNumberOverflow", n)

BondChars == {"-", "=", "#", "$", ":", "/", "\\"}

\* The Bond that each bond character stands for.
BondOf(char) ==
  CASE char = "-" -> "Single"
    [] char = "=" -> "Double"
    [] char = "#" -> "Triple"
    [] char = "$" -> "Quadruple"
    [] char = ":" -> "Aromatic"
    [] char = "/" -> "Up"
    [] char = "\\" -> "Down"

try_bond(p, char, bracket) ==
  IF char \notin BondChars THEN Err(p, "UnexpectedCharacter", char)
  ELSE IF ~bracket THEN Ok(p, Token("Bond", BondOf(char)))
  ELSE IF char = "-" THEN Err(p, "UnexpectedDash", NoArg)
  ELSE IF char = ":" THEN Err(p, "UnexpectedColon", NoArg)
  ELSE Err(p, "BondInBracket", BondOf(char))

(* ------------------------- TokenIter::parse_token ------------------------- *)

\* What parse_token leaves: the result with the cursor, and in_bracket.
Ret(r, in_bracket) == [ok |-> r.ok, p |-> r.p, val |-> r.val, in_bracket |-> in_bracket]

\* Lines 68-75: the closing bracket, after the class.
bracket_close(s, isotope, resolved, chiral, hydrogens, charge, class) ==
  IF ~class.ok THEN Ret(class, TRUE)
  ELSE IF peek_char(s, class.p) = "]"
  THEN Ret(Ok(class.p + 1,
              Token("BracketedAtom",
                    BracketAtom(resolved.symbol, isotope, resolved.aromatic,
                                hydrogens, charge, class.val, chiral))),
           FALSE)
  ELSE Ret(Err(class.p, "UnclosedBracket", NoArg), TRUE)

\* Line 67: the class, after the charge.
bracket_class(s, isotope, resolved, chiral, hydrogens, charge) ==
  IF ~charge.ok THEN Ret(charge, TRUE)
  ELSE bracket_close(s, isotope, resolved, chiral, hydrogens, charge.val,
                     try_class(s, charge.p))

\* Line 66: the charge, after the hydrogens.
bracket_charge(s, isotope, resolved, chiral, hydrogens) ==
  IF ~hydrogens.ok THEN Ret(hydrogens, TRUE)
  ELSE bracket_class(s, isotope, resolved, chiral, hydrogens.val,
                     try_charge(s, hydrogens.p))

\* Lines 62-65: the symbol must be specified; then the hydrogens.
bracket_hydrogens(s, isotope, element, chiral) ==
  IF ~chiral.ok THEN Ret(chiral, TRUE)
  ELSE IF element.val.symbol = Unspecified
  THEN Ret(Err(chiral.p, "MissingBracketElement", NoArg), TRUE)
  ELSE bracket_charge(s, isotope, element.val, chiral.val, hydrogen_count(s, chiral.p))

\* Lines 58-60: the chirality, after the symbol.
bracket_chirality(s, isotope, element) ==
  IF ~element.ok THEN Ret(element, TRUE)
  ELSE bracket_hydrogens(s, isotope, element, try_chirality(s, element.p))

\* Lines 52-57: the symbol, after the isotope.
bracket_element(s, isotope) ==
  IF isotope.some /\ ~isotope.ok
  THEN Ret(Err(isotope.p, isotope.val.kind, isotope.val.arg), TRUE)
  ELSE bracket_chirality(s, IF isotope.some THEN Some(isotope.val) ELSE Nothing,
                         try_element(s, isotope.p, TRUE))

\* The '[' arm (lines 46-76); the cursor p is after the '['.
bracket_arm(s, p, in_bracket) ==
  IF in_bracket THEN Ret(Err(p, "UnexpectedLeftBracket", NoArg), in_bracket)
  ELSE bracket_element(s, try_fold_number(s, p, U16Max))

\* Lines 79-85: the checks on the resolved symbol.
unbracketed_atom(resolved, in_bracket) ==
  IF ~resolved.ok THEN Ret(resolved, in_bracket)
  ELSE IF ~valid_unbracketed(resolved.val.symbol)
  THEN Ret(Err(resolved.p, "InvalidUnbracketedAtom", resolved.val.symbol), in_bracket)
  ELSE IF in_bracket
  THEN Ret(Err(resolved.p, "UnexpectedBracketedState", NoArg), in_bracket)
  ELSE Ret(Ok(resolved.p,
              Token("UnbracketedAtom",
                    UnbracketedAtom(resolved.val.symbol, resolved.val.aromatic))),
           in_bracket)

\* The letter-or-'*' arm (lines 77-86).
atom_arm(s, p, c, in_bracket) ==
  unbracketed_atom(try_element_from_first(s, p, c, in_bracket), in_bracket)

\* A faulty variant of percent_ring: the check that the number has two digits
\* is left out.
percent_ring_any(num, ring_num, in_bracket) ==
  IF ~ring_num.ok THEN Ret(ring_num, in_bracket)
  ELSE Ret(Ok(num.p, Token("RingClosure", ring_num.val)), in_bracket)

\* Lines 96-100: a ring number written with '%' has two digits.
percent_ring(num, ring_num, in_bracket) ==
  IF ~ring_num.ok THEN Ret(ring_num, in_bracket)
  ELSE IF ring_num.val < 10 THEN Ret(Err(num.p, "InvalidRingNumber", NoArg), in_bracket)
  ELSE Ret(Ok(num.p, Token("RingClosure", ring_num.val)), in_bracket)

\* Lines 94-101: the number after '%'.
percent_number(num, in_bracket) ==
  IF ~num.some THEN Ret(Err(num.p, "InvalidRingNumber", NoArg), in_bracket)
  ELSE IF ~num.ok THEN Ret(Err(num.p, num.val.kind, num.val.arg), in_bracket)
  ELSE percent_ring(num, RingNum_try_new(num.p, num.val), in_bracket)

\* The '%' half of the ring-closure arm (lines 89-102).
percent_arm(s, p, in_bracket) ==
  IF in_bracket THEN Ret(Err(p, "UnexpectedPercent", NoArg), in_bracket)
  ELSE percent_number(try_fold_number(s, p, U8Max), in_bracket)

\* The digit half of the ring-closure arm (lines 103-109).
digit_arm(p, n, in_bracket) ==
  LET ring_num == RingNum_try_new(p, to_digit(n))
  IN  IF ~ring_num.ok THEN Ret(ring_num, in_bracket)
      ELSE Ret(Ok(p, Token("RingClosure", ring_num.val)), in_bracket)

\* A parenthesis or the dot (lines 40-45, 112-123).
plain_arm(p, in_bracket, token, error) ==
  IF in_bracket THEN Ret(Err(p, error, NoArg), in_bracket)
  ELSE Ret(Ok(p, token), in_bracket)

\* A faulty variant of the fallback arm: a stray character reported as an
\* unclosed bracket.
fallback_arm_unclosed(p, current_char, in_bracket) ==
  Ret(Err(p, "UnclosedBracket", NoArg), in_bracket)

\* The fallback arm (line 124).
fallback_arm(p, current_char, in_bracket) ==
  Ret(Err(p, "UnexpectedCharacter", current_char), in_bracket)

\* parse_token: current_char has been taken, the cursor is p.
parse_token(s, p, in_bracket, current_char) ==
  CASE current_char = "." -> plain_arm(p, in_bracket, NonBond, "NonBondInBracket")
    [] current_char = "[" -> bracket_arm(s, p, in_bracket)
    [] is_ascii_alphabetic(current_char) \/ current_char = "*" ->
         atom_arm(s, p, current_char, in_bracket)
    [] current_char = "%" -> percent_arm(s, p, in_bracket)
    [] is_ascii_digit(current_char) -> digit_arm(p, current_char, in_bracket)
    [] current_char \in BondChars -> Ret(try_bond(p, current_char, in_bracket), in_bracket)
    [] current_char = "(" ->
         plain_arm(p, in_bracket, LeftParentheses, "UnexpectedBracketedState")
    [] current_char = ")" ->
         plain_arm(p, in_bracket, RightParentheses, "UnexpectedBracketedState")
    [] OTHER -> fallback_arm(p, current_char, in_bracket)

(* ---------------------------- TokenIter::next ---------------------------- *)

Min(a, b) == IF a < b THEN a ELSE b

\* A faulty variant of Spanned: the span's end taken as inclusive.
Spanned_closed(ok, val, start, end) ==
  [ok |-> ok, val |-> val, start |-> start, end |-> end - 1]

\* TokenWithSpan / SmilesErrorWithSpan: ok tells which, val is the Token or
\* the SmilesError.
Spanned(ok, val, start, end) == [ok |-> ok, val |-> val, start |-> start, end |-> end]

\* The end of an error's span (lines 151-154).
error_end(s, p, start, current_char) ==
  IF current_end(s, p) <= start
  THEN Min(start + len_utf8(current_char), ByteOffset(s, Len(s)))
  ELSE current_end(s, p)

\* Lines 144-157: the result r of parse_token with its span.
spanned_item(s, start, current_char, r) ==
  [item |-> IF r.ok THEN Spanned(TRUE, r.val, start, current_end(s, r.p))
            ELSE Spanned(FALSE, r.val, start, error_end(s, r.p, start, current_char)),
   p |-> r.p, in_bracket |-> r.in_bracket]

\* One call of next on a stream that is not exhausted: the item it returns
\* and the state it leaves.
next_item(s, p, in_bracket) ==
  spanned_item(s, ByteOffset(s, p), s[p + 1], parse_token(s, p + 1, in_bracket, s[p + 1]))

(* --------------------------- Smiles::from_str --------------------------- *)

\* token_iter.collect::<Result<Vec<_>, _>>() calls next until it returns
\* None or an Err.  The collector holds the iterator (p, in_bracket), the
\* tokens so far and the first error, if any; n is what next returned.
collected(c, n) ==
  IF n.item.ok
  THEN [ok |-> TRUE, p |-> n.p, in_bracket |-> n.in_bracket, val |-> Append(c.val, n.item)]
  ELSE [ok |-> FALSE, p |-> n.p, in_bracket |-> n.in_bracket, val |-> n.item]

\* One turn of that loop.
collect_step(s, c) ==
  IF ~c.ok \/ c.p >= Len(s) THEN c
  ELSE collected(c, next_item(s, c.p, c.in_bracket))

\* k turns of the loop, halved so that the evaluation stays shallow.
RECURSIVE collect_steps(_, _, _)
collect_steps(s, c, k) ==
  IF k = 0 THEN c
  ELSE IF k = 1 THEN collect_step(s, c)
  ELSE LET half == collect_steps(s, c, k \div 2)
       IN  IF ~half.ok THEN half ELSE collect_steps(s, half, k - (k \div 2))

\* Every call of next takes at least one character, so Len(s) turns reach
\* the end of the loop: val is the Vec of tokens, or the first error.
collect(s) ==
  collect_steps(s, [ok |-> TRUE, p |-> 0, in_bracket |-> FALSE, val |-> <<>>], Len(s))

\* Lines 10-11: the `?` on the collected tokens, then todo!().
from_tokens(tokens) ==
  IF ~tokens.ok THEN [kind |-> "Err", val |-> tokens.val]
  ELSE [kind |-> "panic", val |-> "not yet implemented"]

\* from_str: the error of collect, or the todo!() that follows it.
from_str(s) == from_tokens(collect(s))

(* ------------------------- the authors' test inputs ------------------------- *)

\* tests/test_square_brackets.rs: the strings test_valid_square_brackets tokenizes.
SMILES_WITH_BRACKETS ==
  <<
    \* [OH2]
    <<"[", "O", "H", "2", "]">>,
    \* [OH3+]
    <<"[", "O", "H", "3", "+", "]">>,
    \* [Ti+4]
    <<"[", "T", "i", "+", "4", "]">>,
    \* [Co+3]
    <<"[", "C", "o", "+", "3", "]">>,
    \* [Ga+]$[As-]
    <<"[", "G", "a", "+", "]", "$", "[", "A", "s", "-", "]">>,
    \* [Na+].[Cl-]
    <<"[", "N", "a", "+", "]", ".", "[", "C", "l", "-", "]">>,
    \* N[C@@H](C)C(=O)O
    <<"N", "[", "C", "@", "@", "H", "]", "(", "C", ")", "C", "(", "=", "O", ")", "O">>,
    \* N[CH](C)C(=O)O
    <<"N", "[", "C", "H", "]", "(", "C", ")", "C", "(", "=", "O", ")", "O">>,
    \* [14cH]1ccccc1
    <<"[", "1", "4", "c", "H", "]", "1", "c", "c", "c", "c", "c", "1">>,
    \* [14c@H]1ccccc1
    <<"[", "1", "4", "c", "@", "H", "]", "1", "c", "c", "c", "c", "c", "1">>,
    \* [2H]C(Cl)(Cl)Cl
    <<"[", "2", "H", "]", "C", "(", "C", "l", ")", "(", "C", "l", ")", "C", "l">>,
    \* [C@@H](C)(N)C(=O)O
    <<"[", "C", "@", "@", "H", "]", "(", "C", ")", "(", "N", ")", "C", "(", "=", "O", ")", "O">>,
    \* C[C@H](N)C(=O)O
    <<"C", "[", "C", "@", "H", "]", "(", "N", ")", "C", "(", "=", "O", ")", "O">>,
    \* OC(=O)[C@@H](N)C
    <<"O", "C", "(", "=", "O", ")", "[", "C", "@", "@", "H", "]", "(", "N", ")", "C">>,
    \* [K+].C=C.Cl[Pt-](Cl)Cl.O
    <<"[", "K", "+", "]", ".", "C", "=", "C", ".", "C", "l", "[", "P", "t", "-", "]", "(", "C",
      "l", ")", "C", "l", ".", "O">>,
    \* [Ti++++]
    <<"[", "T", "i", "+", "+", "+", "+", "]">>,
    \* CCN1C[C@]2(COC)CC[C@H](O)[C@@]34[C@@H]5C[C@H]6[C@H](OC)[C@@H]5[C@](O)(C[C@@H]6OC)[C@@](O)([C@@H](OC)[C@H]23)[C@@H]14
    <<"C", "C", "N", "1", "C", "[", "C", "@", "]", "2", "(", "C", "O", "C", ")", "C", "C", "[",
      "C", "@", "H", "]", "(", "O", ")", "[", "C", "@", "@", "]", "3", "4", "[", "C", "@", "@",
      "H", "]", "5", "C", "[", "C", "@", "H", "]", "6", "[", "C", "@", "H", "]", "(", "O", "C",
      ")", "[", "C", "@", "@", "H", "]", "5", "[", "C", "@", "]", "(", "O", ")", "(", "C", "[",
      "C", "@", "@", "H", "]", "6", "O", "C", ")", "[", "C", "@", "@", "]", "(", "O", ")", "(",
      "[", "C", "@", "@", "H", "]", "(", "O", "C", ")", "[", "C", "@", "H", "]", "2", "3", ")",
      "[", "C", "@", "@", "H", "]", "1", "4">>,
    \* C[C@@H]1C[C@@]2(O[C@H]2C)C(=O)O[C@@H]2CCN(C)C/C=C(/COC(=O)[C@]1(C)O)C2=O
    <<"C", "[", "C", "@", "@", "H", "]", "1", "C", "[", "C", "@", "@", "]", "2", "(", "O", "[",
      "C", "@", "H", "]", "2", "C", ")", "C", "(", "=", "O", ")", "O", "[", "C", "@", "@", "H",
      "]", "2", "C", "C", "N", "(", "C", ")", "C", "/", "C", "=", "C", "(", "/", "C", "O", "C",
      "(", "=", "O", ")", "[", "C", "@", "]", "1", "(", "C", ")", "O", ")", "C", "2", "=", "O">>,
    \* CC1=C[C@H](O)CC(C)(C)[C@H]1/C=C/C(C)=C/C=C/C(C)=C/C=C/C=C(C)/C=C/C=C(\C)CO
    <<"C", "C", "1", "=", "C", "[", "C", "@", "H", "]", "(", "O", ")", "C", "C", "(", "C", ")",
      "(", "C", ")", "[", "C", "@", "H", "]", "1", "/", "C", "=", "C", "/", "C", "(", "C", ")",
      "=", "C", "/", "C", "=", "C", "/", "C", "(", "C", ")", "=", "C", "/", "C", "=", "C", "/",
      "C", "=", "C", "(", "C", ")", "/", "C", "=", "C", "/", "C", "=", "C", "(", "\\", "C",
      ")", "C", "O">>
  >>

\* tests/test_smiles_parser.rs: the strings test_tokenizer tokenizes.
SMILES_STR ==
  <<
    \* C1=CC=CC=C1
    <<"C", "1", "=", "C", "C", "=", "C", "C", "=", "C", "1">>,
    \* [OH2]
    <<"[", "O", "H", "2", "]">>,
    \* [Ti+4]
    <<"[", "T", "i", "+", "4", "]">>,
    \* [Co+3]
    <<"[", "C", "o", "+", "3", "]">>,
    \* CCO
    <<"C", "C", "O">>,
    \* C#N
    <<"C", "#", "N">>,
    \* [Ga+]$[As-]
    <<"[", "G", "a", "+", "]", "$", "[", "A", "s", "-", "]">>,
    \* [Na+].[Cl-]
    <<"[", "N", "a", "+", "]", ".", "[", "C", "l", "-", "]">>,
    \* C1CCCC2C1CCCC2
    <<"C", "1", "C", "C", "C", "C", "2", "C", "1", "C", "C", "C", "C", "2">>,
    \* C0CCCCC0C0CCCCC0
    <<"C", "0", "C", "C", "C", "C", "C", "0", "C", "0", "C", "C", "C", "C", "C", "0">>,
    \* C1:C:C:C:C:C1
    <<"C", "1", ":", "C", ":", "C", ":", "C", ":", "C", ":", "C", "1">>,
    \* c1ccccc1
    <<"c", "1", "c", "c", "c", "c", "c", "1">>,
    \* c1ccccc1c2ccccc2
    <<"c", "1", "c", "c", "c", "c", "c", "1", "c", "2", "c", "c", "c", "c", "c", "2">>,
    \* COc(c1)cccc1C#N
    <<"C", "O", "c", "(", "c", "1", ")", "c", "c", "c", "c", "1", "C", "#", "N">>,
    \* FC(Br)(Cl)F
    <<"F", "C", "(", "B", "r", ")", "(", "C", "l", ")", "F">>,
    \* CC1CCC/C(C)=C1/C=C/C(C)=C/C=C/C(C)=C/C=C/C=C(C)/C=C/C=C(C)/C=C/C2=C(C)/CCCC2(C)C
    <<"C", "C", "1", "C", "C", "C", "/", "C", "(", "C", ")", "=", "C", "1", "/", "C", "=", "C",
      "/", "C", "(", "C", ")", "=", "C", "/", "C", "=", "C", "/", "C", "(", "C", ")", "=", "C",
      "/", "C", "=", "C", "/", "C", "=", "C", "(", "C", ")", "/", "C", "=", "C", "/", "C", "=",
      "C", "(", "C", ")", "/", "C", "=", "C", "/", "C", "2", "=", "C", "(", "C", ")", "/", "C",
      "C", "C", "C", "2", "(", "C", ")", "C">>,
    \* N[C@@H](C)C(=O)O
    <<"N", "[", "C", "@", "@", "H", "]", "(", "C", ")", "C", "(", "=", "O", ")", "O">>,
    \* N[CH](C)C(=O)O
    <<"N", "[", "C", "H", "]", "(", "C", ")", "C", "(", "=", "O", ")", "O">>,
    \* NC(C)C(=O)O
    <<"N", "C", "(", "C", ")", "C", "(", "=", "O", ")", "O">>,
    \* [14cH]1ccccc1
    <<"[", "1", "4", "c", "H", "]", "1", "c", "c", "c", "c", "c", "1">>,
    \* [14c@H]1ccccc1
    <<"[", "1", "4", "c", "@", "H", "]", "1", "c", "c", "c", "c", "c", "1">>,
    \* [2H]C(Cl)(Cl)Cl
    <<"[", "2", "H", "]", "C", "(", "C", "l", ")", "(", "C", "l", ")", "C", "l">>,
    \* [C@@H](C)(N)C(=O)O
    <<"[", "C", "@", "@", "H", "]", "(", "C", ")", "(", "N", ")", "C", "(", "=", "O", ")", "O">>,
    \* C[C@H](N)C(=O)O
    <<"C", "[", "C", "@", "H", "]", "(", "N", ")", "C", "(", "=", "O", ")", "O">>,
    \* OC(=O)[C@@H](N)C
    <<"O", "C", "(", "=", "O", ")", "[", "C", "@", "@", "H", "]", "(", "N", ")", "C">>,
    \* [K+].C=C.Cl[Pt-](Cl)Cl.O
    <<"[", "K", "+", "]", ".", "C", "=", "C", ".", "C", "l", "[", "P", "t", "-", "]", "(", "C",
      "l", ")", "C", "l", ".", "O">>,
    \* [Ti+4]
    <<"[", "T", "i", "+", "4", "]">>,
    \* CCN1C[C@]2(COC)CC[C@H](O)[C@@]34[C@@H]5C[C@H]6[C@H](OC)[C@@H]5[C@](O)(C[C@@H]6OC)[C@@](O)([C@@H](OC)[C@H]23)[C@@H]14
    <<"C", "C", "N", "1", "C", "[", "C", "@", "]", "2", "(", "C", "O", "C", ")", "C", "C", "[",
      "C", "@", "H", "]", "(", "O", ")", "[", "C", "@", "@", "]", "3", "4", "[", "C", "@", "@",
      "H", "]", "5", "C", "[", "C", "@", "H", "]", "6", "[", "C", "@", "H", "]", "(", "O", "C",
      ")", "[", "C", "@", "@", "H", "]", "5", "[", "C", "@", "]", "(", "O", ")", "(", "C", "[",
      "C", "@", "@", "H", "]", "6", "O", "C", ")", "[", "C", "@", "@", "]", "(", "O", ")", "(",
      "[", "C", "@", "@", "H", "]", "(", "O", "C", ")", "[", "C", "@", "H", "]", "2", "3", ")",
      "[", "C", "@", "@", "H", "]", "1", "4">>,
    \* C[C@@H]1C[C@@]2(O[C@H]2C)C(=O)O[C@@H]2CCN(C)C/C=C(/COC(=O)[C@]1(C)O)C2=O
    <<"C", "[", "C", "@", "@", "H", "]", "1", "C", "[", "C", "@", "@", "]", "2", "(", "O", "[",
      "C", "@", "H", "]", "2", "C", ")", "C", "(", "=", "O", ")", "O", "[", "C", "@", "@", "H",
      "]", "2", "C", "C", "N", "(", "C", ")", "C", "/", "C", "=", "C", "(", "/", "C", "O", "C",
      "(", "=", "O", ")", "[", "C", "@", "]", "1", "(", "C", ")", "O", ")", "C", "2", "=", "O">>,
    \* CC=C(C)C1=C(Cl)C(O)=C(C)C2=C1OC1=CC(O)=C(Cl)C(C)=C1C(=O)O2
    <<"C", "C", "=", "C", "(", "C", ")", "C", "1", "=", "C", "(", "C", "l", ")", "C", "(", "O",
      ")", "=", "C", "(", "C", ")", "C", "2", "=", "C", "1", "O", "C", "1", "=", "C", "C", "(",
      "O", ")", "=", "C", "(", "C", "l", ")", "C", "(", "C", ")", "=", "C", "1", "C", "(", "=",
      "O", ")", "O", "2">>,
    \* CC1=C[C@H](O)CC(C)(C)[C@H]1/C=C/C(C)=C/C=C/C(C)=C/C=C/C=C(C)/C=C/C=C(\C)CO
    <<"C", "C", "1", "=", "C", "[", "C", "@", "H", "]", "(", "O", ")", "C", "C", "(", "C", ")",
      "(", "C", ")", "[", "C", "@", "H", "]", "1", "/", "C", "=", "C", "/", "C", "(", "C", ")",
      "=", "C", "/", "C", "=", "C", "/", "C", "(", "C", ")", "=", "C", "/", "C", "=", "C", "/",
      "C", "=", "C", "(", "C", ")", "/", "C", "=", "C", "/", "C", "=", "C", "(", "\\", "C",
      ")", "C", "O">>,
    \* c1ccccc1*
    <<"c", "1", "c", "c", "c", "c", "c", "1", "*">>
  >>

\* tests/test_aromatics.rs: the aromatic and aliphatic examples.
SMILES_STR_aromatics ==
  <<
    \* c1ccccc1
    <<"c", "1", "c", "c", "c", "c", "c", "1">>,
    \* n1ccccc1
    <<"n", "1", "c", "c", "c", "c", "c", "1">>,
    \* Cc1ccccc1
    <<"C", "c", "1", "c", "c", "c", "c", "c", "1">>,
    \* c1cccc2ccccc12
    <<"c", "1", "c", "c", "c", "c", "2", "c", "c", "c", "c", "c", "1", "2">>,
    \* n1cc[nH]c1
    <<"n", "1", "c", "c", "[", "n", "H", "]", "c", "1">>,
    \* C1CCCCC1
    <<"C", "1", "C", "C", "C", "C", "C", "1">>,
    \* C1CCC=CC1
    <<"C", "1", "C", "C", "C", "=", "C", "C", "1">>,
    \* C1CCC1
    <<"C", "1", "C", "C", "C", "1">>,
    \* CCO
    <<"C", "C", "O">>,
    \* C1CCCC2CCCCC12
    <<"C", "1", "C", "C", "C", "C", "2", "C", "C", "C", "C", "C", "1", "2">>,
    \* [nH]1cccc1
    <<"[", "n", "H", "]", "1", "c", "c", "c", "c", "1">>,
    \* c1[n+]([O-])cccc1
    <<"c", "1", "[", "n", "+", "]", "(", "[", "O", "-", "]", ")", "c", "c", "c", "c", "1">>,
    \* [CH3][CH2][OH]
    <<"[", "C", "H", "3", "]", "[", "C", "H", "2", "]", "[", "O", "H", "]">>,
    \* [NH4+]
    <<"[", "N", "H", "4", "+", "]">>
  >>

\* tests/test_square_brackets.rs: the inputs of the three error tests.
UnexpectedRightBracketsInput == <<"[", "C", "o", "+", "3", "]", "]">>
UnexpectedLeftBracketsInput == <<"[", "[", "C", "o", "+", "3", "]">>
UnclosedBracketsInput == <<"[", "C", "o", "+", "3">>

\* Further examples: elements outside the organic subset, the aromatic
\* letters in and out of brackets, and characters outside ASCII.
ExampleInputs ==
  {<<"N", "a">>,
   <<"H">>,
   <<"F", "e">>,
   <<"s", "e">>,
   <<"a", "s">>,
   <<"[", "s", "e", "]">>,
   <<"[", "a", "s", "]">>,
   <<"[", "F", "e", "]">>,
   <<"B", "r">>,
   <<"[", "[", "[">>,
   <<"C", "U+00E9", "C">>,
   <<"[", "U+20AC", "]">>,
   <<"[", "C", "U+00E9">>,
   <<"[", "s", "e", "]", "s", "e">>}
    \cup {<<c>> : c \in {"b", "c", "n", "o", "p", "s"}}
    \cup {<<"[", c, "]">> : c \in {"b", "c", "n", "o", "p", "s"}}

ErrorInputs ==
  {UnexpectedRightBracketsInput, UnexpectedLeftBracketsInput, UnclosedBracketsInput}
    \cup ExampleInputs

(* ------------------------- bracket atoms as written ------------------------- *)

\* A field of a bracket atom as it is written, and the value that the
\* grammar gives to what is written.
Written(text, val) == [text |-> text, val |-> val]

WrittenIsotopes ==
  {Written(<<>>, Nothing), Written(<<"2">>, Some(2)), Written(<<"1", "4">>, Some(14))}

WrittenSymbols ==
  {Written(<<"C">>, Resolved(SymElement(<<"C">>), FALSE)),
   Written(<<"O">>, Resolved(SymElement(<<"O">>), FALSE)),
   Written(<<"H">>, Resolved(SymElement(<<"H">>), FALSE)),
   Written(<<"C", "o">>, Resolved(SymElement(<<"C", "o">>), FALSE)),
   Written(<<"T", "i">>, Resolved(SymElement(<<"T", "i">>), FALSE)),
   Written(<<"c">>, Resolved(SymElement(<<"C">>), TRUE)),
   Written(<<"s", "e">>, Resolved(SymElement(<<"S", "e">>), TRUE)),
   Written(<<"*">>, Resolved(WildCard, FALSE))}

WrittenChiralities ==
  {Written(<<>>, Nothing),
   Written(<<"@">>, Some(At)),
   Written(<<"@", "@">>, Some(AtAt)),
   Written(<<"@", "T", "H", "1">>, Some(Chirality("TH", 1))),
   Written(<<"@", "T", "B", "2", "0">>, Some(Chirality("TB", 20))),
   Written(<<"@", "A", "L", "2">>, Some(Chirality("AL", 2))),
   Written(<<"@", "S", "P", "3">>, Some(Chirality("SP", 3))),
   Written(<<"@", "O", "H", "3", "0">>, Some(Chirality("OH", 30)))}

WrittenHydrogens ==
  {Written(<<>>, HUnspecified),
   Written(<<"H">>, Explicit(1)),
   Written(<<"H", "2">>, Explicit(2)),
   Written(<<"H", "0">>, Explicit(0))}

WrittenCharges ==
  {Written(<<>>, 0),
   Written(<<"+">>, 1),
   Written(<<"-">>, -1),
   Written(<<"+", "+">>, 2),
   Written(<<"-", "-">>, -2),
   Written(<<"+", "3">>, 3),
   Written(<<"-", "1", "5">>, -15)}

WrittenClasses ==
  {Written(<<>>, 0), Written(<<":", "4", "2">>, 42)}

\* What follows the fields: the closing bracket, the end of the input, or a
\* character that continues none of the fields.
WrittenCloses == {<<"]">>, <<>>, <<"C">>, <<"[">>}

\* The input was not written from the fields of one bracket atom.
Text == [kind |-> "text"]

WrittenBrackets ==
  [kind : {"bracket"}, isotope : WrittenIsotopes, symbol : WrittenSymbols,
   chirality : WrittenChiralities, hydrogens : WrittenHydrogens,
   charge : WrittenCharges, class : WrittenClasses, close : WrittenCloses]

\* `[` isotope? symbol chirality? hcount? charge? class? and what follows.
Render(w) ==
  <<"[">> \o w.isotope.text \o w.symbol.text \o w.chirality.text \o w.hydrogens.text
          \o w.charge.text \o w.class.text \o w.close

\* The BracketAtom that the written fields denote.
WrittenAtom(w) ==
  BracketAtom(w.symbol.val.symbol, w.isotope.val, w.symbol.val.aromatic,
              w.hydrogens.val, w.charge.val, w.class.val, w.chirality.val)

(* --------------------------------- state --------------------------------- *)

VARIABLES
  input,       \* the string given to TokenIter::from / Smiles::from_str
  chars,       \* TokenIter.chars: how many characters have been taken
  in_bracket,  \* TokenIter.in_bracket
  emitted,     \* the items that the calls of next have returned, in order
  last,        \* whether next has been called, and what the last call returned
  result,      \* what from_str returned, once it has been called
  written,     \* the fields the input was written from, when it is one bracket atom
  arg,         \* the value a caller hands to try_new or fmt
  ret,         \* what that call returned, once it has been made
  tokens,      \* SmilesParser.tokens: the slice given to SmilesParser::new
  parsed,      \* what SmilesParser::parse returned, once it has been called
  smiles       \* a Smiles graph in a caller's hands: atom_nodes and bond_edges

vars == <<input, chars, in_bracket, emitted, last, result, written,
          arg, ret, tokens, parsed, smiles>>

\* The state of the tokenizer and of from_str.
token_vars == <<input, chars, in_bracket, emitted, last, result, written>>

\* The rest of the state.
other_vars == <<arg, ret, tokens, parsed, smiles>>

MaxLen == 4
Alphabet == {"[", "]", "C", "l", "c", "N", "a", "s", "e", "H", "+", "2"}

\* Every string over Alphabet of at most n characters.
Strings(n) == UNION {[1..k -> Alphabet] : k \in 0..n}

NotCalled == [kind |-> "NotCalled", val |-> NoArg]

\* TokenIter::from(s): the state of a fresh tokenizer over s.
Fresh(s) ==
  /\ input = s
  /\ chars = 0
  /\ in_bracket = FALSE
  /\ emitted = <<>>
  /\ last = [called |-> FALSE, ret |-> Nothing]
  /\ result = NotCalled

\* Smiles::new (src/smiles/mod.rs lines 16-18).
Smiles_new == [atom_nodes |-> <<>>, bond_edges |-> <<>>]

\* No value call is under way, no parser has been built, the graph is new.
NoOthers ==
  /\ arg = NotCalled
  /\ ret = NotCalled
  /\ tokens = <<>>
  /\ parsed = NotCalled
  /\ smiles = Smiles_new

\* The inputs of the tests, and the further examples.
TestInputs ==
  {SMILES_WITH_BRACKETS[i] : i \in DOMAIN SMILES_WITH_BRACKETS}
    \cup {SMILES_STR[i] : i \in DOMAIN SMILES_STR}
    \cup {SMILES_STR_aromatics[i] : i \in DOMAIN SMILES_STR_aromatics}
    \cup ErrorInputs

Init == \E s \in Strings(MaxLen) \cup TestInputs : Fresh(s) /\ written = Text /\ NoOthers

\* The inputs that are one bracket atom written field by field.
InitBracket == \E w \in WrittenBrackets : Fresh(Render(w)) /\ written = w /\ NoOthers

\* A faulty variant of Yield: the cursor is left on the last character taken.
Yield_rewound(n) ==
  /\ chars' = n.p - 1
  /\ in_bracket' = n.in_bracket
  /\ emitted' = Append(emitted, n.item)
  /\ last' = [called |-> TRUE, ret |-> Some(n.item)]
  /\ UNCHANGED <<input, result, written>>
  /\ UNCHANGED other_vars

\* next returns Some(n.item) and leaves the iterator at n.p, n.in_bracket.
Yield(n) ==
  /\ chars' = n.p
  /\ in_bracket' = n.in_bracket
  /\ emitted' = Append(emitted, n.item)
  /\ last' = [called |-> TRUE, ret |-> Some(n.item)]
  /\ UNCHANGED <<input, result, written>>
  /\ UNCHANGED other_vars

\* A caller drives the TokenIter by hand: one call of TokenIter::next.
TokenIter_next ==
  /\ result.kind = "NotCalled"
  /\ IF chars >= Len(input)
     THEN /\ last' = [called |-> TRUE, ret |-> Nothing]
          /\ UNCHANGED <<input, chars, in_bracket, emitted, result, written>>
          /\ UNCHANGED other_vars
     ELSE Yield(next_item(input, chars, in_bracket))

\* A caller parses the string: one call of Smiles::from_str, which builds a
\* TokenIter of its own.
Smiles_from_str ==
  /\ result.kind = "NotCalled"
  /\ ~last.called
  /\ result' = from_str(input)
  /\ UNCHANGED <<input, chars, in_bracket, emitted, last, written>>
  /\ UNCHANGED other_vars

Next == TokenIter_next \/ Smiles_from_str

Spec == Init /\ [][Next]_vars

SpecBracket == InitBracket /\ [][Next]_vars

(* ------------------------------- properties ------------------------------- *)

\* next has returned None: the iteration is over.
Exhausted == last.called /\ last.ret = Nothing

AllOk(items) == \A i \in 1..Len(items) : items[i].ok

\* The calls of next before the i-th all returned tokens.
OkBefore(i) == \A j \in 1..(i - 1) : emitted[j].ok

\* The length of s in bytes.
ByteLen(s) == ByteOffset(s, Len(s))

\* The index in s of the character at byte offset b.
CharIndex(s, b) == CHOOSE k \in 1..Len(s) : ByteOffset(s, k - 1) = b

IsErr(item, kind) == ~item.ok /\ item.val.kind = kind

IsToken(item, type) == item.ok /\ item.val.type = type

\* C1: Smiles::from_str returns Ok(graph) or Err(error) for every input, and
\* Ok(graph) for every input that tokenizes without error; it never aborts.
C1_from_str_returns ==
  result.kind # "NotCalled" =>
    /\ result.kind \in {"Ok", "Err"}
    /\ collect(input).ok => result.kind = "Ok"

\* from_str has been called on "C", which tokenizes, and has aborted.
C1_from_str_aborts == result.kind = "panic" /\ input = <<"C">>

\* Each span is non-empty and starts where the one before ended, the first at 0.
Contiguous(items) ==
  \A i \in 1..Len(items) :
    /\ items[i].start < items[i].end
    /\ items[i].start = (IF i = 1 THEN 0 ELSE items[i - 1].end)

\* C2: while TokenIter has yielded only Ok items, the spans of the tokens
\* tile the input: the first starts at byte 0, each starts where the one
\* before ended, none is empty, and once the iteration is over the last one
\* ends at the byte length of the input.
C2_spans_tile ==
  AllOk(emitted) =>
    /\ Contiguous(emitted)
    /\ Exhausted =>
         (IF Len(emitted) = 0 THEN 0 ELSE emitted[Len(emitted)].end) = ByteLen(input)

\* An input of three tokens or more, one of them longer than a character,
\* has been tokenized to its end without error.
C2_tiled_input ==
  /\ Exhausted
  /\ AllOk(emitted)
  /\ Len(emitted) >= 3
  /\ \E i \in 1..Len(emitted) : emitted[i].end - emitted[i].start >= 2

\* C3: a bracket atom written as `[` isotope? symbol chirality? hcount?
\* charge? class? `]` tokenizes to exactly one BracketedAtom token that spans
\* the whole bracket and holds the written value of each field that is
\* present and the default of each field that is absent.
C3_bracket_atom_token ==
  (written.kind = "bracket" /\ written.close = <<"]">> /\ last.called) =>
    /\ IsToken(emitted[1], "BracketedAtom")
    /\ emitted[1].val.val = WrittenAtom(written)
    /\ emitted[1].start = 0
    /\ emitted[1].end = ByteLen(input)
    /\ Len(emitted) = 1

\* `[OH2]` has given one token: O, not aromatic, two hydrogens, span [0,5).
C3_water ==
  /\ input = <<"[", "O", "H", "2", "]">>
  /\ Exhausted
  /\ emitted = <<Spanned(TRUE,
                         Token("BracketedAtom",
                               BracketAtom(SymElement(<<"O">>), Nothing, FALSE,
                                           Explicit(2), 0, 0, Nothing)),
                         0, 5)>>

\* C4: a `[` met while a bracket is open (the second `[` of `[[Co+3]`) makes
\* tokenization fail with UnexpectedLeftBracket, spanning that inner `[`.
C4_inner_left_bracket ==
  (last.called /\ Len(input) >= 2 /\ input[1] = "[" /\ input[2] = "[") =>
    /\ IsErr(emitted[1], "UnexpectedLeftBracket")
    /\ emitted[1].start = 1
    /\ emitted[1].end = 2

\* `[[Co+3]` has failed with MissingElement over [0,2).
C4_missing_element ==
  /\ input = UnexpectedLeftBracketsInput
  /\ last.called
  /\ IsErr(emitted[1], "MissingElement")
  /\ emitted[1].start = 0
  /\ emitted[1].end = 2

HasBracket(s) == \E i \in 1..Len(s) : s[i] = "["

\* The strings of the lists of valid inputs that hold a bracket.
ValidBracketInputs ==
  {s \in {SMILES_WITH_BRACKETS[i] : i \in DOMAIN SMILES_WITH_BRACKETS}
           \cup {SMILES_STR[i] : i \in DOMAIN SMILES_STR}
           \cup {SMILES_STR_aromatics[i] : i \in DOMAIN SMILES_STR_aromatics} :
     HasBracket(s)}

\* C5: every string of the lists of valid inputs that holds a bracket
\* tokenizes to its end with no error.
C5_valid_lists_tokenize ==
  input \in ValidBracketInputs => AllOk(emitted) /\ result.kind # "Err"

\* `[Ti++++]` has failed with UnclosedBracket.
C5_titanium_unclosed ==
  /\ input = <<"[", "T", "i", "+", "+", "+", "+", "]">>
  /\ last.called
  /\ IsErr(emitted[1], "UnclosedBracket")

\* C6: a `]` met when no bracket is open makes tokenization fail with
\* UnexpectedCharacter(']') spanning that one character; in `[Co+3]]` the
\* bracket atom is emitted first, over [0,6), and the error spans [6,7).
C6_stray_right_bracket ==
  /\ \A i \in 1..Len(emitted) :
       (OkBefore(i) /\ input[CharIndex(input, emitted[i].start)] = "]") =>
         /\ IsErr(emitted[i], "UnexpectedCharacter")
         /\ emitted[i].val.arg = "]"
         /\ emitted[i].end = emitted[i].start + 1
  /\ (input = UnexpectedRightBracketsInput /\ Len(emitted) >= 2) =>
       /\ IsToken(emitted[1], "BracketedAtom")
       /\ emitted[1] = Spanned(TRUE,
                               Token("BracketedAtom",
                                     BracketAtom(SymElement(<<"C", "o">>), Nothing, FALSE,
                                                 HUnspecified, 3, 0, Nothing)),
                               0, 6)
       /\ emitted[2].start = 6
       /\ emitted[2].end = 7

\* `[Co+3]]` has given the bracket atom and then the error at the second `]`.
C6_after_bracket_atom ==
  /\ input = UnexpectedRightBracketsInput
  /\ Len(emitted) = 2
  /\ emitted[1].ok
  /\ IsErr(emitted[2], "UnexpectedCharacter")
  /\ emitted[2].start = 6

\* The written fields end with a bare `@`: what follows it decides the tag.
EndsWithAt(w) ==
  /\ w.chirality.text = <<"@">>
  /\ w.hydrogens.text = <<>>
  /\ w.charge.text = <<>>
  /\ w.class.text = <<>>

\* C7: a bracket atom whose content is well formed but which is not followed
\* by `]` (the input ends, or another character stands where `]` is required)
\* fails with UnclosedBracket; when the input ends inside the bracket the
\* span runs from the `[` to the end of the input.
C7_unclosed_bracket ==
  (/\ written.kind = "bracket"
   /\ written.close # <<"]">>
   /\ ~EndsWithAt(written)
   /\ last.called) =>
    /\ IsErr(emitted[1], "UnclosedBracket")
    /\ written.close = <<>> =>
         emitted[1].start = 0 /\ emitted[1].end = ByteLen(input)

\* `[Co+3` has failed with UnclosedBracket over [0,5).
C7_cobalt_unclosed ==
  /\ input = UnclosedBracketsInput
  /\ last.called
  /\ IsErr(emitted[1], "UnclosedBracket")
  /\ emitted[1].start = 0
  /\ emitted[1].end = 5

AtomTypes == {"BracketedAtom", "UnbracketedAtom"}

\* C8: when an input has tokenized without error, the substring under the
\* span of any of its atom tokens, tokenized alone, gives exactly one token,
\* equal to that atom token.
C8_atoms_retokenize ==
  (Exhausted /\ AllOk(emitted)) =>
    \A i \in 1..Len(emitted) :
      emitted[i].val.type \in AtomTypes =>
        LET again == collect(SubSeq(input, emitted[i].start + 1, emitted[i].end))
        IN  /\ again.ok
            /\ Len(again.val) = 1
            /\ again.val[1].val.type = emitted[i].val.type
            /\ again.val[1].val.val = emitted[i].val.val

\* An input has tokenized without error to a two-letter bare atom and, after
\* other tokens, a bracket atom.
C8_atoms_in_context ==
  /\ Exhausted
  /\ AllOk(emitted)
  /\ \E i \in 2..Len(emitted) : emitted[i].val.type = "BracketedAtom"
  /\ \E j \in 1..Len(emitted) :
       emitted[j].val.type = "UnbracketedAtom" /\ emitted[j].end - emitted[j].start = 2

\* The elements that may be written outside brackets.
C9_Allowed ==
  {<<"B">>, <<"C">>, <<"N">>, <<"O">>, <<"P">>, <<"S">>, <<"F">>, <<"C", "l">>,
   <<"B", "r">>, <<"I">>}

\* The element that the letters from the k-th character of s resolve to when
\* the k-th is an uppercase letter: with the lowercase letter that follows if
\* the two name an element, alone otherwise.
UpperLed(s, k) ==
  LET c2 == peek_char(s, k)
  IN  IF c2 \in LowerLetters /\ <<s[k], c2>> \in Elements THEN <<s[k], c2>> ELSE <<s[k]>>

\* C9: outside brackets, letters that resolve to an element outside B, C, N,
\* O, P, S, F, Cl, Br, I fail with InvalidUnbracketedAtom carrying the symbol,
\* and no UnbracketedAtom token holds a symbol outside that set and the wildcard.
C9_unbracketed_subset ==
  \A i \in 1..Len(emitted) :
    /\ IsToken(emitted[i], "UnbracketedAtom") =>
         \/ emitted[i].val.val.symbol.kind = "WildCard"
         \/ /\ emitted[i].val.val.symbol.kind = "Element"
            /\ emitted[i].val.val.symbol.el \in C9_Allowed
    /\ LET k == CharIndex(input, emitted[i].start)
       IN  (/\ OkBefore(i)
            /\ input[k] \in UpperLetters
            /\ UpperLed(input, k) \in Elements \ C9_Allowed) =>
             /\ IsErr(emitted[i], "InvalidUnbracketedAtom")
             /\ emitted[i].val.arg = SymElement(UpperLed(input, k))

\* `Na` has failed with InvalidUnbracketedAtom(Na).
C9_sodium ==
  /\ input = <<"N", "a">>
  /\ Len(emitted) = 1
  /\ IsErr(emitted[1], "InvalidUnbracketedAtom")
  /\ emitted[1].val.arg = SymElement(<<"N", "a">>)

\* The lowercase letters that are aromatic atoms in and out of brackets.
C10_Anywhere == {"b", "c", "n", "o", "p", "s"}

\* The item is a bracket atom of the aromatic element e.
AromaticBracket(item, e) ==
  /\ IsToken(item, "BracketedAtom")
  /\ item.val.val.symbol = SymElement(e)
  /\ item.val.val.aromatic

MarkLen == 3
MarkAlphabet == {"*", "-", "=", "#", "$", ":", "/", "\\", "[", "]", "C", "l"}

\* Every string over MarkAlphabet of at most n characters.
MarkStrings(n) == UNION {[1..k -> MarkAlphabet] : k \in 0..n}

InitMarks == \E s \in MarkStrings(MarkLen) : Fresh(s) /\ written = Text /\ NoOthers

\* The token that a call of next on the one-byte character at chars returns.
OneByteToken(token) ==
  Spanned(TRUE, token, ByteOffset(input, chars), ByteOffset(input, chars) + 1)

\* The call of next that is about to happen reads character c with no
\* bracket open.
ReadsOutside(c) == ~in_bracket /\ chars < Len(input) /\ input[chars + 1] = c

\* C11: a call of next that reads `*` while no bracket is open returns one
\* UnbracketedAtom token holding the wildcard, not aromatic, spanning that one
\* character, whatever stands before or after it; in particular it never
\* returns InvalidUnbracketedAtom.
C11_wildcard_outside ==
  [][(ReadsOutside("*") /\ TokenIter_next) =>
       /\ emitted' =
            Append(emitted,
                   OneByteToken(Token("UnbracketedAtom", UnbracketedAtom(WildCard, FALSE))))
       /\ chars' = chars + 1
       /\ ~in_bracket']_vars

\* `C*l` has been tokenized up to the wildcard, which stands between a
\* carbon and a letter and has given the wildcard atom spanning [1,2).
C11_wildcard_between ==
  /\ input = <<"C", "*", "l">>
  /\ Len(emitted) = 2
  /\ emitted[2] = Spanned(TRUE, Token("UnbracketedAtom", UnbracketedAtom(WildCard, FALSE)), 1, 2)

(* ------------------------------ Bond as text ------------------------------ *)

Bonds == {"Single", "Double", "Triple", "Quadruple", "Aromatic", "Up", "Down"}

\* What a call returned (Returned) or how it ended the process (Aborted).
Returned(v) == [kind |-> "Ok", val |-> v]
Aborted(why) == [kind |-> "abort", val |-> why]

\* impl Display for Bond in src/bond/mod.rs: the text written to f.
Bond_fmt_mod(bond) ==
  Returned(CASE bond = "Single" -> <<"-">>
             [] bond = "Double" -> <<"=">>
             [] bond = "Triple" -> <<"#">>
             [] bond = "Quadruple" -> <<"$">>
             [] bond = "Aromatic" -> <<":">>
             [] bond = "Up" -> <<"/">>
             [] bond = "Down" -> <<"\\">>)

\* The calls of fmt that fit on the stack.
StackFrames == 16

\* impl Display for Bond in src/bond.rs: write!(f, "{}", self) formats self
\* with this same fmt, which never writes and never returns; frames counts
\* the calls under way, and the process ends when the stack is full.
RECURSIVE Bond_fmt_self(_, _)
Bond_fmt_self(bond, frames) ==
  IF frames >= StackFrames THEN Aborted("stack overflow")
  ELSE Bond_fmt_self(bond, frames + 1)

\* lib.rs declares `pub mod bond;` and the tree holds both src/bond.rs and
\* src/bond/mod.rs: a build takes one of the two files.
BondModules == {"bond/mod.rs", "bond.rs"}

Bond_fmt(module, bond) ==
  IF module = "bond/mod.rs" THEN Bond_fmt_mod(bond) ELSE Bond_fmt_self(bond, 1)

\* A caller formats the Bond of the token that next has just returned:
\* format!("{}", bond).
Bond_to_string ==
  /\ result.kind = "NotCalled"
  /\ ret.kind = "NotCalled"
  /\ last.ret # Nothing
  /\ IsToken(last.ret[1], "Bond")
  /\ arg' = [kind |-> "Bond::fmt", val |-> last.ret[1].val.val]
  /\ \E module \in BondModules : ret' = Bond_fmt(module, last.ret[1].val.val)
  /\ UNCHANGED token_vars
  /\ UNCHANGED <<tokens, parsed, smiles>>

NextMarks == TokenIter_next \/ Bond_to_string

SpecMarks == InitMarks /\ [][NextMarks]_vars

\* The Bond that the claim gives for each of the seven characters.
C12_bond_of ==
  [c \in {"-", "=", "#", "$", ":", "/", "\\"} |->
     CASE c = "-" -> "Single" [] c = "=" -> "Double" [] c = "#" -> "Triple"
       [] c = "$" -> "Quadruple" [] c = ":" -> "Aromatic" [] c = "/" -> "Up"
       [] c = "\\" -> "Down"]

\* The character of the input at which the i-th item starts.
StartChar(i) == input[CharIndex(input, emitted[i].start)]

\* C12: outside brackets each of `-`, `=`, `#`, `$`, `:`, `/`, `\` tokenizes
\* to the Bond Single, Double, Triple, Quadruple, Aromatic, Up, Down, in this
\* order, and formatting that Bond gives back the one character it was read
\* from.
C12_bond_round_trip ==
  /\ \A i \in 1..Len(emitted) :
       (OkBefore(i) /\ StartChar(i) \in DOMAIN C12_bond_of) =>
         /\ IsToken(emitted[i], "Bond")
         /\ emitted[i].val.val = C12_bond_of[StartChar(i)]
         /\ emitted[i].end = emitted[i].start + 1
  /\ ret.kind # "NotCalled" =>
       /\ ret.kind = "Ok"
       /\ \E c \in DOMAIN C12_bond_of : C12_bond_of[c] = arg.val /\ ret.val = <<c>>

\* `=` has been tokenized to Bond::Double, and formatting that Bond has
\* used up the stack without writing anything.
C12_double_overflows ==
  /\ input = <<"=">>
  /\ emitted = <<Spanned(TRUE, Token("Bond", "Double"), 0, 1)>>
  /\ arg.val = "Double"
  /\ ret = Aborted("stack overflow")

(* ------------------------- Charge and RingNum values ------------------------- *)

\* The values of the types i8 and u8.
I8 == (-I8Max - 1)..I8Max
U8 == 0..U8Max

\* What a caller can ask of the two value types.
ValueCall(call) ==
  \/ \E num \in I8 : call = [kind |-> "Charge::try_new", val |-> num]
  \/ \E num \in U8 : call = [kind |-> "RingNum::try_new", val |-> num]
  \/ call = [kind |-> "Charge::default", val |-> NoArg]

InitValues ==
  /\ \E s \in {<<>>} : Fresh(s) /\ written = Text
  /\ ValueCall(arg)
  /\ ret = NotCalled
  /\ tokens = <<>>
  /\ parsed = NotCalled
  /\ smiles = Smiles_new

\* try_new is an associated function: it reads no cursor.
NoCursor == 0

\* Charge::get and RingNum::get return the wrapped number; a Charge or a
\* RingNum is modelled as the number it wraps.
Charge_get(self) == self
RingNum_get(self) == self

\* A caller makes the call that arg describes.
Charge_try_new_call ==
  /\ arg.kind = "Charge::try_new"
  /\ ret.kind = "NotCalled"
  /\ ret' = Returned(Charge_try_new(NoCursor, arg.val))
  /\ UNCHANGED token_vars
  /\ UNCHANGED <<arg, tokens, parsed, smiles>>

RingNum_try_new_call ==
  /\ arg.kind = "RingNum::try_new"
  /\ ret.kind = "NotCalled"
  /\ ret' = Returned(RingNum_try_new(NoCursor, arg.val))
  /\ UNCHANGED token_vars
  /\ UNCHANGED <<arg, tokens, parsed, smiles>>

Charge_default_call ==
  /\ arg.kind = "Charge::default"
  /\ ret.kind = "NotCalled"
  /\ ret' = Returned(Ok(NoCursor, Charge_default))
  /\ UNCHANGED token_vars
  /\ UNCHANGED <<arg, tokens, parsed, smiles>>

NextValues == Charge_try_new_call \/ RingNum_try_new_call \/ Charge_default_call

SpecValues == InitValues /\ [][NextValues]_vars

\* The call that arg describes has been made.
Called(kind) == arg.kind = kind /\ ret.kind # "NotCalled"

\* The call returned Err(error(num)).
Refused(error, num) ==
  /\ ~ret.val.ok
  /\ ret.val.val.kind = error
  /\ ret.val.val.arg = num

\* C13: Charge::try_new(c) succeeds exactly when -15 <= c <= 15, and get()
\* of the Charge then returns c; for c < -15 it fails with ChargeUnderflow(c)
\* and for c > 15 with ChargeOverflow(c), so no value is clamped; and
\* Charge::default() is the charge 0.
C13_charge_range ==
  /\ Called("Charge::try_new") =>
       /\ ret.val.ok <=> (-15 <= arg.val /\ arg.val <= 15)
       /\ ret.val.ok => Charge_get(ret.val.val) = arg.val
       /\ arg.val < -15 => Refused("ChargeUnderflow", arg.val)
       /\ arg.val > 15 => Refused("ChargeOverflow", arg.val)
  /\ Called("Charge::default") => ret.val.ok /\ Charge_get(ret.val.val) = 0

\* Charge::try_new(-16) has returned Err(ChargeUnderflow(-16)).
C13_minus_sixteen ==
  /\ Called("Charge::try_new")
  /\ arg.val = -16
  /\ Refused("ChargeUnderflow", -16)

\* C14: RingNum::try_new(n) succeeds for every n from 0 to 99, and get() of
\* the RingNum then returns n; for every n from 100 on it fails with
\* RingNumberOverflow(n).
C14_ring_num_range ==
  Called("RingNum::try_new") =>
    /\ arg.val <= 99 => ret.val.ok /\ RingNum_get(ret.val.val) = arg.val
    /\ arg.val >= 100 => Refused("RingNumberOverflow", arg.val)

\* RingNum::try_new(100) has returned Err(RingNumberOverflow(100)).
C14_one_hundred ==
  /\ Called("RingNum::try_new")
  /\ arg.val = 100
  /\ Refused("RingNumberOverflow", 100)

(* ------------------------------ SmilesParser ------------------------------ *)

\* slice.get(i) for the 0-based index i.
get(slice, i) == IF 0 <= i /\ i < Len(slice) THEN Some(slice[i + 1]) ELSE Nothing

\* SmilesParser::current, peek_next, peek_last and done at a position.
current(toks, position) == get(toks, position)
peek_next(toks, position) == get(toks, position + 1)
peek_last(toks, position) == IF position = 0 THEN Nothing ELSE get(toks, position - 1)
done(toks, position) == position >= Len(toks)

\* The closures of try_non_bond: is_some_and(matches!(BracketedAtom | UnbracketedAtom)).
is_atom(t) == t # Nothing /\ t[1].val.type \in {"BracketedAtom", "UnbracketedAtom"}

try_non_bond(prev_token, next_token, dot_token) ==
  IF ~is_atom(prev_token) \/ ~is_atom(next_token)
  THEN [ok |-> FALSE,
        val |-> Spanned(FALSE, [kind |-> "InvalidNonBondToken", arg |-> NoArg],
                        dot_token.start, dot_token.end)]
  ELSE [ok |-> TRUE, val |-> NoArg]

\* The local state of parse: kind is "running" inside the loop, and then
\* "Ok", "Err" or "panic" with val what parse returned or the panic message.
Parsing(kind, position, graph, id_count, val) ==
  [kind |-> kind, position |-> position, smiles |-> graph, id_count |-> id_count, val |-> val]

\* A faulty variant of advance: the position grows whether or not the
\* parser is done.
advance_unchecked(toks, position) == position + 1

\* SmilesParser::advance
advance(toks, position) == IF ~done(toks, position) THEN position + 1 ELSE position

\* The NonBond arm with the `?` on the result r of try_non_bond.
non_bond_arm(toks, st, r) ==
  IF r.ok
  THEN Parsing("running", advance(toks, st.position), st.smiles, st.id_count, NoArg)
  ELSE Parsing("Err", st.position, st.smiles, st.id_count, r.val)

\* The arms that are todo!().
todo_arm(st) ==
  Parsing("panic", st.position, st.smiles, st.id_count, "not yet implemented")

\* One turn of the loop of parse on the current token.
parse_turn(toks, st, token_with_span) ==
  CASE token_with_span.val.type = "NonBond" ->
         non_bond_arm(toks, st,
                      try_non_bond(peek_last(toks, st.position),
                                   peek_next(toks, st.position), token_with_span))
    [] token_with_span.val.type = "BracketedAtom" ->
         Parsing("running", advance(toks, st.position), st.smiles, st.id_count + 1, NoArg)
    [] token_with_span.val.type \in
         {"UnbracketedAtom", "Bond", "LeftParentheses", "RightParentheses", "RingClosure"} ->
         todo_arm(st)

\* while let Some(token_with_span) = self.current() { ... } Ok(smiles)
RECURSIVE parse_loop(_, _)
parse_loop(toks, st) ==
  IF st.kind # "running" THEN st
  ELSE IF current(toks, st.position) = Nothing
  THEN Parsing("Ok", st.position, st.smiles, st.id_count, st.smiles)
  ELSE parse_loop(toks, parse_turn(toks, st, toks[st.position + 1]))

\* SmilesParser::new(tokens).parse()
parse(toks) == parse_loop(toks, Parsing("running", 0, Smiles_new, 0, NoArg))

ParseLen == 4

\* The pieces the parsed strings are written from: a bracket atom, a bare
\* atom, the dot, a bond, the parentheses and a ring number.
Lexemes ==
  {<<"[", "C", "]">>, <<"C">>, <<".">>, <<"-">>, <<"(">>, <<")">>, <<"1">>}

RECURSIVE Concat(_)
Concat(pieces) ==
  IF pieces = <<>> THEN <<>> ELSE Head(pieces) \o Concat(Tail(pieces))

\* Every string of at most n lexemes.
ParseStrings(n) == {Concat(pieces) : pieces \in UNION {[1..k -> Lexemes] : k \in 0..n}}

\* A caller has collected the tokens of a string and built a parser over
\* them: SmilesParser::new(&tokens).
InitParse ==
  \E s \in ParseStrings(ParseLen) :
    /\ Fresh(s)
    /\ written = Text
    /\ collect(s).ok
    /\ tokens = collect(s).val
    /\ arg = NotCalled
    /\ ret = NotCalled
    /\ parsed = NotCalled
    /\ smiles = Smiles_new

\* The caller calls parse, which runs its loop to the end.
SmilesParser_parse ==
  /\ parsed.kind = "NotCalled"
  /\ parsed' = parse(tokens)
  /\ UNCHANGED token_vars
  /\ UNCHANGED <<arg, ret, tokens, smiles>>

NextParse == SmilesParser_parse

SpecParse == InitParse /\ [][NextParse]_vars

\* parse has been called.
Parsed == parsed.kind # "NotCalled"

TokenType(i) == tokens[i].val.type

IsAtomAt(i) ==
  i \in 1..Len(tokens) /\ TokenType(i) \in {"BracketedAtom", "UnbracketedAtom"}

\* The i-th token is a dot that does not stand between two atom tokens.
BadDot(i) == TokenType(i) = "NonBond" /\ ~(IsAtomAt(i - 1) /\ IsAtomAt(i + 1))

\* C15: parse accepts a `.` only between two atom tokens: it returns Ok only
\* when every dot has an atom token right before and right after it, and
\* when some dot has not (dot first, dot last, dot next to a bond, a
\* parenthesis, a ring closure or another dot) it returns an error whose
\* span is the span of that dot.
C15_dot_between_atoms ==
  Parsed =>
    /\ parsed.kind = "Ok" => \A i \in 1..Len(tokens) : ~BadDot(i)
    /\ (\E i \in 1..Len(tokens) : BadDot(i)) =>
         /\ parsed.kind = "Err"
         /\ \E i \in 1..Len(tokens) :
              /\ BadDot(i)
              /\ parsed.val.start = tokens[i].start
              /\ parsed.val.end = tokens[i].end

\* `C.` has been parsed: the dot is last, and parse has stopped at the C
\* before it with the panic of todo!().
C15_dot_last_aborts ==
  /\ input = <<"C", ".">>
  /\ Len(tokens) = 2
  /\ BadDot(2)
  /\ parsed.kind = "panic"
  /\ parsed.position = 0

\* The number of atom tokens among the first i tokens; the atom token that
\* makes it k is the k-th atom, and its node is to have the id k - 1.
AtomNo(i) == Cardinality({j \in 1..i : IsAtomAt(j)})

\* The graph that parse returned.
Graph == parsed.val

\* The edges of the graph between the nodes a and b.
EdgesBetween(a, b) ==
  {e \in 1..Len(Graph.bond_edges) :
     {Graph.bond_edges[e].node_a, Graph.bond_edges[e].node_b} = {a, b}}

\* C16: after a successful parse the graph holds exactly one AtomNode for
\* each atom token, bracketed or not, in the order of the tokens, with the
\* ids 0, 1, 2, ... in that order.
C16_one_node_per_atom ==
  (Parsed /\ parsed.kind = "Ok") =>
    /\ Len(Graph.atom_nodes) = AtomNo(Len(tokens))
    /\ \A i \in 1..Len(tokens) :
         IsAtomAt(i) =>
           /\ Graph.atom_nodes[AtomNo(i)].id = AtomNo(i) - 1
           /\ Graph.atom_nodes[AtomNo(i)].atom.val = tokens[i].val.val

\* `[C][C]` has been parsed with success, and the graph holds no node.
C16_two_atoms_no_node ==
  /\ input = <<"[", "C", "]", "[", "C", "]">>
  /\ AtomNo(Len(tokens)) = 2
  /\ parsed.kind = "Ok"
  /\ Graph.atom_nodes = <<>>

\* The tokens are a chain: atoms, with at most one bond token between two
\* of them and none at either end.
Chain ==
  /\ Len(tokens) >= 2
  /\ IsAtomAt(1) /\ IsAtomAt(Len(tokens))
  /\ \A i \in 1..Len(tokens) : IsAtomAt(i) \/ (TokenType(i) = "Bond" /\ IsAtomAt(i + 1))

\* The bond the chain gives between the atom at token i (i > 1) and the atom
\* before it.
ChainBond(i) == IF TokenType(i - 1) = "Bond" THEN tokens[i - 1].val.val ELSE "Single"

\* C17: in a chain, parse inserts exactly one edge between each atom and the
\* atom before it, Bond::Single when no bond token stands between the two and
\* the bond of that token otherwise, and no other edge.
C17_one_edge_per_link ==
  (Parsed /\ Chain) =>
    /\ parsed.kind = "Ok"
    /\ Len(Graph.bond_edges) = AtomNo(Len(tokens)) - 1
    /\ \A i \in 2..Len(tokens) :
         IsAtomAt(i) =>
           /\ Cardinality(EdgesBetween(AtomNo(i) - 2, AtomNo(i) - 1)) = 1
           /\ \A e \in EdgesBetween(AtomNo(i) - 2, AtomNo(i) - 1) :
                Graph.bond_edges[e].bond = ChainBond(i)

\* `[C][C]` has been parsed with success, and the graph holds no edge.
C17_two_atoms_no_edge ==
  /\ input = <<"[", "C", "]", "[", "C", "]">>
  /\ Chain
  /\ parsed.kind = "Ok"
  /\ Graph.bond_edges = <<>>

\* The positions of the ring closure tokens, and how many of them stand
\* among the first i tokens.
IsRingAt(i) == i \in 1..Len(tokens) /\ TokenType(i) = "RingClosure"
RingNo(i, n) == Cardinality({j \in 1..i : IsRingAt(j) /\ tokens[j].val.val = n})

\* The tokens are atoms and ring closures, an atom first, and each ring
\* number stands an even number of times: its occurrences pair up, the
\* first with the second, the third with the fourth.
RingsPaired ==
  /\ Len(tokens) >= 1
  /\ IsAtomAt(1)
  /\ \E i \in 1..Len(tokens) : IsRingAt(i)
  /\ \A i \in 1..Len(tokens) :
       /\ IsAtomAt(i) \/ IsRingAt(i)
       /\ IsRingAt(i) => RingNo(Len(tokens), tokens[i].val.val) % 2 = 0

\* The ring closure at j closes the one opened at i.
Closes(i, j) ==
  /\ IsRingAt(i) /\ IsRingAt(j) /\ i < j
  /\ tokens[i].val.val = tokens[j].val.val
  /\ RingNo(i, tokens[i].val.val) % 2 = 1
  /\ RingNo(j, tokens[j].val.val) = RingNo(i, tokens[i].val.val) + 1

\* C18: the first occurrence of a ring number records the current atom, the
\* next occurrence of the same number inserts an edge between the recorded
\* atom and the atom current then, and the number is free again, so that a
\* third occurrence opens and a fourth closes.
C18_ring_closure_pairs ==
  (Parsed /\ RingsPaired) =>
    /\ parsed.kind = "Ok"
    /\ \A i, j \in 1..Len(tokens) :
         Closes(i, j) => EdgesBetween(AtomNo(i) - 1, AtomNo(j) - 1) # {}

\* `[C]1[C]1` has been parsed: parse has stopped at the first ring closure
\* with the panic of todo!().
C18_ring_aborts ==
  /\ input = <<"[", "C", "]", "1", "[", "C", "]", "1">>
  /\ RingsPaired
  /\ Closes(2, 4)
  /\ parsed.kind = "panic"
  /\ parsed.position = 1

\* How many tokens of a type stand among the first i tokens.
CountOf(type, i) == Cardinality({j \in 1..i : TokenType(j) = type})

\* The `)` at i has no `(` open before it.
Unmatched(i) ==
  /\ TokenType(i) = "RightParentheses"
  /\ CountOf("RightParentheses", i) > CountOf("LeftParentheses", i)

\* C19: parse rejects with an error every token sequence in which a `)`
\* stands with no `(` open, and every sequence it accepts has as many `(`
\* as `)`.
C19_parentheses_balance ==
  Parsed =>
    /\ (\E i \in 1..Len(tokens) : Unmatched(i)) => parsed.kind = "Err"
    /\ parsed.kind = "Ok" =>
         CountOf("LeftParentheses", Len(tokens)) = CountOf("RightParentheses", Len(tokens))

\* `[C])` has been parsed: parse has stopped at the `)` with the panic of
\* todo!() and has returned no error.
C19_close_aborts ==
  /\ input = <<"[", "C", "]", ")">>
  /\ Unmatched(2)
  /\ parsed.kind = "panic"
  /\ parsed.position = 1

(* ------------------------------ Smiles graph ------------------------------ *)

MaxId == 2
MaxNodes == 2
MaxEdges == 1

\* AtomNode::new (src/atom/atom_node.rs) and BondEdge::new.
AtomNode_new(atom, id) == [id |-> id, atom |-> atom]
BondEdge_new(node_a, node_b, bond) == [node_a |-> node_a, node_b |-> node_b, bond |-> bond]

\* The atoms a caller makes nodes of: Atom::from of an UnbracketedAtom.
GraphAtoms ==
  {[kind |-> "Unbracketed", val |-> UnbracketedAtom(SymElement(<<"C">>), FALSE)]}

\* A caller holds a new graph: Smiles::new().
InitGraph ==
  /\ \E s \in {<<>>} : Fresh(s) /\ written = Text
  /\ NoOthers

\* smiles.push_node(AtomNode::new(atom, id))
Smiles_push_node ==
  /\ Len(smiles.atom_nodes) < MaxNodes
  /\ \E atom \in GraphAtoms, id \in 0..MaxId :
       smiles' = [smiles EXCEPT !.atom_nodes = Append(@, AtomNode_new(atom, id))]
  /\ UNCHANGED token_vars
  /\ UNCHANGED <<arg, ret, tokens, parsed>>

\* smiles.push_edge(node_a, node_b, bond)
Smiles_push_edge ==
  /\ Len(smiles.bond_edges) < MaxEdges
  /\ \E node_a \in 0..MaxId, node_b \in 0..MaxId, bond \in Bonds :
       smiles' = [smiles EXCEPT !.bond_edges = Append(@, BondEdge_new(node_a, node_b, bond))]
  /\ UNCHANGED token_vars
  /\ UNCHANGED <<arg, ret, tokens, parsed>>

NextGraph == Smiles_push_node \/ Smiles_push_edge

SpecGraph == InitGraph /\ [][NextGraph]_vars

\* The ids of the nodes of the graph.
NodeIds == {smiles.atom_nodes[k].id : k \in 1..Len(smiles.atom_nodes)}

\* C20: in every state of a Smiles graph, node_a and node_b of each BondEdge
\* are ids of AtomNodes that the graph holds: no edge can be added for an id
\* that has not been pushed.
C20_edges_join_nodes ==
  \A e \in 1..Len(smiles.bond_edges) :
    /\ smiles.bond_edges[e].node_a \in NodeIds
    /\ smiles.bond_edges[e].node_b \in NodeIds

\* push_edge(0, 1, Bond::Single) on a new graph has added the edge: the
\* graph holds an edge and no node.
C20_edge_without_nodes ==
  /\ smiles.atom_nodes = <<>>
  /\ smiles.bond_edges = <<BondEdge_new(0, 1, "Single")>>

(* --------------------------- rendering an error --------------------------- *)

Max(a, b) == IF a > b THEN a ELSE b

\* str::repeat(n) of a one-character string.
Repeat(char, n) == [k \in 1..n |-> char]

\* impl Display for AtomSymbol (src/atom_symbol.rs): write!(f, "{}", self)
\* formats self with this same fmt; frames counts the calls under way.
RECURSIVE AtomSymbol_fmt(_, _)
AtomSymbol_fmt(symbol, frames) ==
  IF frames >= StackFrames THEN Aborted("stack overflow")
  ELSE AtomSymbol_fmt(symbol, frames + 1)

\* The texts of the arms of SmilesError's fmt that write no payload.
PlainMessages ==
  [kind \in {"MissingElement", "InvalidIsotope", "InvalidNumber", "UnexpectedLeftBracket",
             "UnexpectedRightBracket", "UnclosedBracket", "ElementRequiresBrackets",
             "MissingBracketElement", "IntegerOverflow", "NonBondInBracket",
             "InvalidChirality", "UnexpectedEndOfString", "InvalidClass",
             "UnexpectedBracketedState", "UnexpectedDash", "UnexpectedColon",
             "UnexpectedPercent", "InvalidRingNumber"} |->
     CASE kind = "MissingElement" -> "Missing element"
       [] kind = "InvalidIsotope" -> "Invalid isotope"
       [] kind = "InvalidNumber" -> "Invalid number"
       [] kind = "UnexpectedLeftBracket" -> "Unexpected '['"
       [] kind = "UnexpectedRightBracket" -> "Unexpected ']'"
       [] kind = "UnclosedBracket" -> "Unclosed '['"
       [] kind = "ElementRequiresBrackets" -> "Element requires brackets"
       [] kind = "MissingBracketElement" -> "Missing element inside brackets"
       [] kind = "IntegerOverflow" -> "Integer overflow"
       [] kind = "NonBondInBracket" -> "Non-bond '.' in bracket"
       [] kind = "InvalidChirality" -> "Invalid chirality"
       [] kind = "UnexpectedEndOfString" -> "Unexpected end of string"
       [] kind = "InvalidClass" -> "Invalid class"
       [] kind = "UnexpectedBracketedState" -> "Unexpected bracketed state"
       [] kind = "UnexpectedDash" -> "Unexpected '-'"
       [] kind = "UnexpectedColon" -> "Unexpected ':'"
       [] kind = "UnexpectedPercent" -> "Unexpected '%'"
       [] kind = "InvalidRingNumber" -> "Invalid ring number"]

\* The texts before the payload in the arms that write one with its own
\* Display (a char, a number or an Element).
PayloadMessages ==
  [kind \in {"InvalidElementName", "UnexpectedCharacter", "InvalidAromaticElement",
             "RingNumberOverflow", "ChargeUnderflow", "ChargeOverflow"} |->
     CASE kind = "InvalidElementName" -> "Invalid element name: "
       [] kind = "UnexpectedCharacter" -> "Unexpected character: "
       [] kind = "InvalidAromaticElement" -> "Invalid aromatic element: "
       [] kind = "RingNumberOverflow" -> "Ring number overflow: "
       [] kind = "ChargeUnderflow" -> "Charge underflow: "
       [] kind = "ChargeOverflow" -> "Charge overflow: "]

\* write!(f, "<text>{payload}") where the payload has been formatted to shown.
written_after(text, shown) ==
  IF shown.kind = "Ok" THEN Returned(<<text>> \o shown.val) ELSE shown

\* impl Display for SmilesError: the message as the pieces written, or the
\* end of the process when the payload's fmt does not return.
SmilesError_fmt(module, error) ==
  CASE error.kind \in DOMAIN PlainMessages -> Returned(<<PlainMessages[error.kind]>>)
    [] error.kind \in DOMAIN PayloadMessages ->
         Returned(<<PayloadMessages[error.kind], error.arg>>)
    [] error.kind = "BondInBracket" ->
         written_after("Bond in bracket: ", Bond_fmt(module, error.arg))
    [] error.kind = "InvalidUnbracketedAtom" ->
         written_after("Invalid unbracketed atom: ", AtomSymbol_fmt(error.arg, 1))

\* end - start on usize: a negative difference ends the call (a panic in a
\* debug build, a wrapped count that repeat cannot allocate in a release
\* build).
usize_sub(a, b) == IF a >= b THEN Returned(a - b) ELSE Aborted("subtract with overflow")

\* format!("{input}\n{underline}\n{}", self.smiles_error) with the underline
\* of start spaces and count carets.
rendered(s, start, count, message) ==
  IF count.kind # "Ok" THEN count
  ELSE IF message.kind # "Ok" THEN message
  ELSE Returned(s \o <<"\n">> \o Repeat(" ", start) \o Repeat("^", count.val)
                  \o <<"\n">> \o message.val)

\* Lines 167-168 with len = input.len().
render_start(start, len) == Min(start, len)
render_end(start, end, len) == Min(Max(Min(end, len), render_start(start, len) + 1), len)

\* SmilesErrorWithSpan::render
render(module, self, s) ==
  rendered(s, render_start(self.start, ByteLen(s)),
           usize_sub(render_end(self.start, self.end, ByteLen(s)),
                     render_start(self.start, ByteLen(s))),
           SmilesError_fmt(module, self.val))

\* The spans and inputs that render is called with.
MaxSpan == 4
RenderLen == 3
RenderAlphabet == {"N", "a", "U+00E9"}

\* The errors that are rendered.
RenderErrors ==
  {[kind |-> "UnclosedBracket", arg |-> NoArg],
   [kind |-> "MissingBracketElement", arg |-> NoArg],
   [kind |-> "UnexpectedCharacter", arg |-> "U+00E9"],
   [kind |-> "ChargeOverflow", arg |-> 16],
   [kind |-> "BondInBracket", arg |-> "Double"],
   [kind |-> "InvalidUnbracketedAtom", arg |-> SymElement(<<"N", "a">>)]}

\* A caller holds SmilesErrorWithSpan::new(error, start, end) and a string.
InitRender ==
  /\ \E s \in UNION {[1..k -> RenderAlphabet] : k \in 0..RenderLen} :
       Fresh(s) /\ written = Text
  /\ \E error \in RenderErrors, start \in 0..MaxSpan, end \in 0..MaxSpan :
       arg = [kind |-> "render", val |-> Spanned(FALSE, error, start, end)]
  /\ ret = NotCalled
  /\ tokens = <<>>
  /\ parsed = NotCalled
  /\ smiles = Smiles_new

\* The caller calls error.render(input).
SmilesErrorWithSpan_render ==
  /\ ret.kind = "NotCalled"
  /\ \E module \in BondModules : ret' = render(module, arg.val, input)
  /\ UNCHANGED token_vars
  /\ UNCHANGED <<arg, tokens, parsed, smiles>>

NextRender == SmilesErrorWithSpan_render

SpecRender == InitRender /\ [][NextRender]_vars

\* render has been called.
Rendered == arg.kind = "render" /\ ret.kind # "NotCalled"

\* The span of the rendered error clamped to the length of the input, and
\* the number of carets that stands for it.
ClampedStart == Min(arg.val.start, ByteLen(input))
ClampedEnd == Min(arg.val.end, ByteLen(input))
Carets ==
  IF ClampedStart < ByteLen(input) THEN Max(ClampedEnd - ClampedStart, 1) ELSE 0

\* The input line and the underline, each with its newline.
TwoLines == input \o <<"\n">> \o Repeat(" ", ClampedStart) \o Repeat("^", Carets) \o <<"\n">>

\* C21: render(input) returns the input, a newline, an underline of start
\* spaces and end - start carets, a newline and the error message, with
\* start and end clamped to the length of the input and at least one caret
\* whenever start lies inside the input; the subtraction never underflows,
\* so the call returns for every span and every input.
C21_render_layout ==
  Rendered =>
    /\ ret.kind = "Ok"
    /\ Len(ret.val) > Len(TwoLines)
    /\ SubSeq(ret.val, 1, Len(TwoLines)) = TwoLines

\* The error of `Na`, InvalidUnbracketedAtom(Na) over [0,2), has been
\* rendered against `Na`: the call has used up the stack in the fmt of the
\* symbol and has returned nothing.
C21_sodium_overflows ==
  /\ input = <<"N", "a">>
  /\ arg.kind = "render"
  /\ arg.val = Spanned(FALSE, [kind |-> "InvalidUnbracketedAtom", arg |-> SymElement(<<"N", "a">>)], 0, 2)
  /\ ret = Aborted("stack overflow")

(* ----------------------- letters outside brackets ----------------------- *)

LetterLen == 3
LetterAlphabet == {"B", "C", "N", "O", "P", "S", "b", "c", "n", "o", "p", "s"}

InitLetters ==
  \E s \in UNION {[1..k -> LetterAlphabet] : k \in 0..LetterLen} :
    Fresh(s) /\ written = Text /\ NoOthers

SpecLetters == InitLetters /\ [][Next]_vars

\* The lowercase letters of the aromatic atoms outside brackets.
AromaticLetters == {"b", "c", "n", "o", "p", "s"}

\* The i-th item is the token of the one-letter atom written at character i.
IsLetterAtom(item, i, aromatic) ==
  /\ IsToken(item, "UnbracketedAtom")
  /\ item.val.val = UnbracketedAtom(SymElement(<<to_ascii_uppercase(input[i])>>), aromatic)
  /\ item.start = i - 1
  /\ item.end = i

\* C22: a string made only of the letters b, c, n, o, p, s tokenizes to one
\* aromatic UnbracketedAtom for each letter, whatever letter follows it.
C22_aromatic_letters ==
  (\A k \in 1..Len(input) : input[k] \in AromaticLetters) =>
    /\ \A i \in 1..Len(emitted) : IsLetterAtom(emitted[i], i, TRUE)
    /\ Exhausted => Len(emitted) = Len(input)

\* `cn` has failed at its first call of next with
\* InvalidAromaticElement(Cn) over [0,2): the two letters were read as
\* copernicium.
C22_copernicium ==
  /\ input = <<"c", "n">>
  /\ emitted = <<Spanned(FALSE, [kind |-> "InvalidAromaticElement", arg |-> <<"C", "n">>], 0, 2)>>

\* The one-letter atoms of the organic subset.
OrganicLetters == {"B", "C", "N", "O", "P", "S", "F", "I"}

\* The i-th item starts at an uppercase organic atom that a lowercase
\* aromatic letter follows.
UpperThenAromatic(i) ==
  /\ OkBefore(i)
  /\ StartChar(i) \in OrganicLetters
  /\ peek_char(input, CharIndex(input, emitted[i].start)) \in AromaticLetters

\* C23: an uppercase organic-subset atom immediately followed by a
\* lowercase aromatic atom tokenizes as two atoms: the uppercase one not
\* aromatic, and then, when no further lowercase letter follows, the
\* lowercase one aromatic.
C23_upper_then_aromatic ==
  \A i \in 1..Len(emitted) :
    UpperThenAromatic(i) =>
      /\ IsLetterAtom(emitted[i], CharIndex(input, emitted[i].start), FALSE)
      /\ (/\ Len(emitted) > i
          /\ peek_char(input, CharIndex(input, emitted[i].start) + 1) \notin LowerLetters) =>
           IsLetterAtom(emitted[i + 1], CharIndex(input, emitted[i].start) + 1, TRUE)

\* `Co` has failed at its first call of next with
\* InvalidUnbracketedAtom(Co) over [0,2): the two letters were read as cobalt.
C23_cobalt ==
  /\ input = <<"C", "o">>
  /\ emitted = <<Spanned(FALSE, [kind |-> "InvalidUnbracketedAtom", arg |-> SymElement(<<"C", "o">>)], 0, 2)>>

(* ------------------------- chirality tags as written ------------------------- *)

\* What is written after `[C@`: the letters of a tag, a number, and the rest
\* of the bracket with the hydrogens, charge and class it denotes.
ChiralTags ==
  {<<>>, <<"T">>, <<"T", "H">>, <<"T", "B">>, <<"A">>, <<"A", "L">>, <<"A", "P">>,
   <<"S">>, <<"S", "P">>, <<"S", "L">>, <<"O">>, <<"O", "H">>}

ChiralNumber(text, some, val) == [text |-> text, some |-> some, val |-> val]

ChiralNumbers ==
  {ChiralNumber(<<>>, FALSE, 0), ChiralNumber(<<"0">>, TRUE, 0),
   ChiralNumber(<<"1">>, TRUE, 1), ChiralNumber(<<"2">>, TRUE, 2),
   ChiralNumber(<<"3">>, TRUE, 3), ChiralNumber(<<"4">>, TRUE, 4),
   ChiralNumber(<<"2", "0">>, TRUE, 20), ChiralNumber(<<"2", "1">>, TRUE, 21)}

ChiralRest(text, hydrogens, charge, class) ==
  [text |-> text, hydrogens |-> hydrogens, charge |-> charge, class |-> class]

ChiralRests ==
  {ChiralRest(<<>>, HUnspecified, 0, 0),
   ChiralRest(<<"]">>, HUnspecified, 0, 0),
   ChiralRest(<<"H", "]">>, Explicit(1), 0, 0),
   ChiralRest(<<"+", "]">>, HUnspecified, 1, 0),
   ChiralRest(<<"-", "]">>, HUnspecified, -1, 0),
   ChiralRest(<<":", "1", "]">>, HUnspecified, 0, 1)}

WrittenChirals == [kind : {"chiral"}, tag : ChiralTags, num : ChiralNumbers, rest : ChiralRests]

RenderChiral(w) == <<"[", "C", "@">> \o w.tag \o w.num.text \o w.rest.text

InitChiral == \E w \in WrittenChirals : Fresh(RenderChiral(w)) /\ written = w /\ NoOthers

SpecChiral == InitChiral /\ [][Next]_vars

\* The first call of next has been made on `[C@` tag number rest, with the
\* bracket going on after the number.
ChiralCalled(tags) ==
  /\ written.kind = "chiral"
  /\ written.tag \in tags
  /\ written.rest.text # <<>>
  /\ Len(emitted) >= 1

\* The first item is the bracket atom with the chirality tag(n).
HasChirality(tag, n) ==
  /\ IsToken(emitted[1], "BracketedAtom")
  /\ emitted[1].val.val.chirality = Some(Chirality(tag, n))

\* The written number is there and lies in lo..hi.
NumberIn(lo, hi) == written.num.some /\ lo <= written.num.val /\ written.num.val <= hi

\* C24: inside a bracket `@TH` with an integer n gives the chirality TH(n)
\* when 1 <= n <= 2 and `@TB` with n gives TB(n) when 1 <= n <= 20; a number
\* out of the range or no number gives InvalidChirality.
C24_th_tb ==
  /\ ChiralCalled({<<"T", "H">>}) =>
       IF NumberIn(1, 2) THEN HasChirality("TH", written.num.val)
       ELSE IsErr(emitted[1], "InvalidChirality")
  /\ ChiralCalled({<<"T", "B">>}) =>
       IF NumberIn(1, 20) THEN HasChirality("TB", written.num.val)
       ELSE IsErr(emitted[1], "InvalidChirality")

\* `[C@TH1]` has failed with InvalidChirality.
C24_th1_refused ==
  /\ input = <<"[", "C", "@", "T", "H", "1", "]">>
  /\ Len(emitted) >= 1
  /\ IsErr(emitted[1], "InvalidChirality")

\* C25: inside a bracket `@AL` with n gives AL(n) for 1 <= n <= 2 and `@SP`
\* with n gives SP(n) for 1 <= n <= 3; the letters do not mix: `@AP` and
\* `@SL` give InvalidChirality.
C25_al_sp ==
  /\ ChiralCalled({<<"A", "L">>}) =>
       IF NumberIn(1, 2) THEN HasChirality("AL", written.num.val)
       ELSE IsErr(emitted[1], "InvalidChirality")
  /\ ChiralCalled({<<"S", "P">>}) =>
       IF NumberIn(1, 3) THEN HasChirality("SP", written.num.val)
       ELSE IsErr(emitted[1], "InvalidChirality")
  /\ ChiralCalled({<<"A", "P">>, <<"S", "L">>}) => IsErr(emitted[1], "InvalidChirality")

\* `[C@AP1]` has given a bracket atom with the chirality SP(1).
C25_ap_taken_as_sp ==
  /\ input = <<"[", "C", "@", "A", "P", "1", "]">>
  /\ Len(emitted) >= 1
  /\ HasChirality("SP", 1)

\* A lone `@` is written, and a character follows it: the number's first
\* digit, or else the first character of the rest.
LoneAt ==
  /\ written.kind = "chiral"
  /\ written.tag = <<>>
  /\ written.num.some \/ written.rest.text # <<>>

\* try_chirality has returned At with the cursor right after the `@`.
ReturnsAt(r) == r.ok /\ r.p = 3 /\ r.val = Some(At)

\* C26: a single `@` right before `H`, `-`, `+`, `:`, `]` or a digit gives
\* the chirality At and leaves that character to the steps that follow:
\* try_chirality returns At with the cursor on it, and when no number is
\* written the bracket atom holds At and the hydrogens, charge and class of
\* the rest.
C26_plain_at ==
  (LoneAt /\ Len(emitted) >= 1) =>
    /\ ReturnsAt(try_chirality(input, 2))
    /\ ~written.num.some =>
         /\ emitted[1].ok
         /\ emitted[1].val.val =
              BracketAtom(SymElement(<<"C">>), Nothing, FALSE, written.rest.hydrogens,
                          written.rest.charge, written.rest.class, Some(At))

\* `[C@2]` has failed with InvalidChirality: the digit after `@` is refused.
C26_digit_refused ==
  /\ input = <<"[", "C", "@", "2", "]">>
  /\ Len(emitted) >= 1
  /\ IsErr(emitted[1], "InvalidChirality")

\* The input ends right after `@`, after the first letter of a tag, or after
\* both letters of a tag with no number.
EndsInTag ==
  /\ written.kind = "chiral"
  /\ written.tag \in {<<>>, <<"T">>, <<"O">>, <<"A">>, <<"S">>,
                      <<"T", "H">>, <<"T", "B">>, <<"A", "L">>, <<"S", "P">>, <<"O", "H">>}
  /\ ~written.num.some
  /\ written.rest.text = <<>>

\* C27: when the input ends right after `@` or in the middle of a chirality
\* tag, tokenization fails with UnexpectedEndOfString, so that
\* InvalidChirality is reported only for a character that is there and wrong.
C27_end_in_tag ==
  (EndsInTag /\ Len(emitted) >= 1) => IsErr(emitted[1], "UnexpectedEndOfString")

\* `[C@OH` has failed with InvalidChirality although no character is wrong:
\* the input ends where the number is expected.
C27_oh_at_end ==
  /\ input = <<"[", "C", "@", "O", "H">>
  /\ Len(emitted) >= 1
  /\ IsErr(emitted[1], "InvalidChirality")


(* ----------------------------- ring numbers ----------------------------- *)

RingLen == 5
RingAlphabet == {"%", "0", "1", "2", "3", "5", "C", "["}

InitRings ==
  \E s \in UNION {[1..k -> RingAlphabet] : k \in 0..RingLen} :
    Fresh(s) /\ written = Text /\ NoOthers

SpecRings == InitRings /\ [][Next]_vars

\* The character i places after the one that the next call of next reads is
\* a digit.
DigitAhead(i) == chars + 1 + i <= Len(input) /\ input[chars + 1 + i] \in Digits

\* The number of digits that follow the character about to be read.
DigitsAhead == CHOOSE n \in 0..Len(input) : (\A i \in 1..n : DigitAhead(i)) /\ ~DigitAhead(n + 1)

\* The decimal value of the first n digits that follow the character about
\* to be read.
RECURSIVE ValueAhead(_)
ValueAhead(n) ==
  IF n = 0 THEN 0 ELSE 10 * ValueAhead(n - 1) + to_digit(input[chars + 1 + n])

\* The item that the call of next has just returned.
Returns == emitted'[Len(emitted')]

\* C28: a call of next that reads `%` with no bracket open and at least two
\* digits after it consumes the `%` and exactly those two digits, and, when
\* the two digits are a number from 10 to 99, returns the ring closure of that
\* number spanning the three characters; a third digit is left for the next
\* call.
C28_percent_two_digits ==
  [][(ReadsOutside("%") /\ DigitAhead(1) /\ DigitAhead(2) /\ TokenIter_next) =>
       /\ chars' = chars + 3
       /\ ValueAhead(2) >= 10 =>
            emitted' = Append(emitted,
                              Spanned(TRUE, Token("RingClosure", ValueAhead(2)),
                                      ByteOffset(input, chars), ByteOffset(input, chars) + 3))]_vars

\* `C%123` has given the carbon and then failed at the `%` with
\* RingNumberOverflow(123), the error spanning the `%` and all three digits.
C28_percent_123 ==
  /\ input = <<"C", "%", "1", "2", "3">>
  /\ Len(emitted) = 2
  /\ IsErr(emitted[2], "RingNumberOverflow")
  /\ emitted[2].val.arg = 123
  /\ emitted[2].start = 1
  /\ chars = 5

\* C29: a call of next that reads `%` with no bracket open returns a
\* RingClosure only when the digits after the `%` are a number from 10 to 99,
\* and fails with InvalidRingNumber when no digit follows or the digits are a
\* number below 10; a call that reads a digit d returns RingClosure(d)
\* spanning that digit.
C29_ring_numbers ==
  [][TokenIter_next =>
       /\ ReadsOutside("%") =>
            /\ IsToken(Returns, "RingClosure") =>
                 /\ DigitsAhead >= 1
                 /\ ValueAhead(DigitsAhead) \in 10..99
                 /\ Returns.val.val = ValueAhead(DigitsAhead)
            /\ (DigitsAhead = 0 \/ ValueAhead(DigitsAhead) < 10) =>
                 IsErr(Returns, "InvalidRingNumber")
       /\ (chars < Len(input) /\ input[chars + 1] \in Digits) =>
            emitted' = Append(emitted,
                              OneByteToken(Token("RingClosure", to_digit(input[chars + 1]))))]_vars

\* `1%05` has given RingClosure(1) for the bare digit and then failed at the
\* `%` with InvalidRingNumber, the digits being a number below 10.
C29_five_refused ==
  /\ input = <<"1", "%", "0", "5">>
  /\ Len(emitted) = 2
  /\ emitted[1] = Spanned(TRUE, Token("RingClosure", 1), 0, 1)
  /\ IsErr(emitted[2], "InvalidRingNumber")

(* ----------------------- brackets without a symbol ----------------------- *)

\* After the character about to be read and the digits that follow it comes
\* no letter and no `*`: the end of the input or another character.
NoSymbolAhead ==
  \/ chars + DigitsAhead + 2 > Len(input)
  \/ /\ ~is_ascii_alphabetic(input[chars + DigitsAhead + 2])
     /\ input[chars + DigitsAhead + 2] # "*"

\* C30: a call of next that reads `[` with no bracket open, where the
\* bracket holds no element symbol (after the `[` and an isotope number, if
\* any, the input ends or goes on with a character that is neither a letter
\* nor `*`, as in `[]`, `[+]`, `[12]` and `[`), fails with
\* MissingBracketElement.
C30_missing_bracket_element ==
  [][(ReadsOutside("[") /\ NoSymbolAhead /\ DigitsAhead <= 4 /\ TokenIter_next) =>
       IsErr(Returns, "MissingBracketElement")]_vars

\* `[+]` has failed at the `[` with MissingElement, not
\* MissingBracketElement.
C30_plus_missing_element ==
  /\ input = <<"[", "+", "]">>
  /\ Len(emitted) >= 1
  /\ IsErr(emitted[1], "MissingElement")
  /\ emitted[1].start = 0

(* ------------------------- numbers in a bracket ------------------------- *)

\* A number as written: its digits, whether there are any, whether it is
\* above 2^31 - 1 (val is then not used), and its value.
WrittenNumber(text, some, big, val) == [text |-> text, some |-> some, big |-> big, val |-> val]

WrittenNumbers ==
  {WrittenNumber(<<>>, FALSE, FALSE, 0),
   WrittenNumber(<<"0">>, TRUE, FALSE, 0),
   WrittenNumber(<<"1">>, TRUE, FALSE, 1),
   WrittenNumber(<<"2">>, TRUE, FALSE, 2),
   WrittenNumber(<<"0", "0", "7">>, TRUE, FALSE, 7),
   WrittenNumber(<<"1", "5">>, TRUE, FALSE, 15),
   WrittenNumber(<<"1", "6">>, TRUE, FALSE, 16),
   WrittenNumber(<<"9", "9">>, TRUE, FALSE, 99),
   WrittenNumber(<<"1", "2", "7">>, TRUE, FALSE, 127),
   WrittenNumber(<<"1", "2", "8">>, TRUE, FALSE, 128),
   WrittenNumber(<<"2", "5", "5">>, TRUE, FALSE, 255),
   WrittenNumber(<<"2", "5", "6">>, TRUE, FALSE, 256),
   WrittenNumber(<<"2", "7", "2">>, TRUE, FALSE, 272),
   WrittenNumber(<<"6", "5", "5", "3", "5">>, TRUE, FALSE, 65535),
   WrittenNumber(<<"6", "5", "5", "3", "6">>, TRUE, FALSE, 65536),
   WrittenNumber(<<"6", "5", "5", "5", "1">>, TRUE, FALSE, 65551),
   WrittenNumber(<<"4", "2", "9", "4", "9", "6", "7", "2", "9", "5">>, TRUE, TRUE, 0),
   WrittenNumber(<<"4", "2", "9", "4", "9", "6", "7", "2", "9", "6">>, TRUE, TRUE, 0),
   WrittenNumber(<<"4", "2", "9", "4", "9", "6", "7", "3", "1", "1">>, TRUE, TRUE, 0),
   WrittenNumber(<<"9", "9", "9", "9", "9", "9", "9", "9", "9", "9", "9">>, TRUE, TRUE, 0)}

\* The position of the number in the bracket: what is written before it.
NumberFields ==
  {"isotope", "hydrogens", "class", "+", "-", "++", "--", "none"}

NumberRests == {<<"]">>, <<>>}

WrittenFields ==
  [kind : {"number"}, field : NumberFields, num : WrittenNumbers, rest : NumberRests]

RenderField(w) ==
  CASE w.field = "isotope" -> <<"[">> \o w.num.text \o <<"C">> \o w.rest
    [] w.field = "hydrogens" -> <<"[", "C", "H">> \o w.num.text \o w.rest
    [] w.field = "class" -> <<"[", "C", ":">> \o w.num.text \o w.rest
    [] w.field = "+" -> <<"[", "C", "+">> \o w.num.text \o w.rest
    [] w.field = "-" -> <<"[", "C", "-">> \o w.num.text \o w.rest
    [] w.field = "++" -> <<"[", "C", "+", "+">> \o w.num.text \o w.rest
    [] w.field = "--" -> <<"[", "C", "-", "-">> \o w.num.text \o w.rest
    [] OTHER -> <<"[", "C">> \o w.num.text \o w.rest

InitNumbers == \E w \in WrittenFields : Fresh(RenderField(w)) /\ written = w /\ NoOthers

SpecNumbers == InitNumbers /\ [][Next]_vars

\* The first call of next has been made on a bracket written with the number
\* in one of the fields.
NumberCalled(fields) ==
  /\ written.kind = "number"
  /\ written.field \in fields
  /\ Len(emitted) >= 1

\* The bracket is closed right after the number.
NumberClosed == written.rest = <<"]">>

\* The first item is the bracket atom of carbon with the given fields.
IsCarbon(isotope, hydrogens, charge, class) ==
  /\ emitted[1].ok
  /\ emitted[1].val =
       Token("BracketedAtom",
             BracketAtom(SymElement(<<"C">>), isotope, FALSE, hydrogens, charge, class, Nothing))

\* The first item is the bracket atom of carbon with this charge and nothing
\* else.
HasCharge(charge) == IsCarbon(Nothing, HUnspecified, charge, 0)

\* C31: in a closed bracket, a lone `+` or `-` gives the charge +1 or -1,
\* `++` or `--` gives +2 or -2, a sign followed by digits gives the digits'
\* decimal value with that sign (for the values that are charges, up to 15),
\* and with no sign the charge is 0.
C31_charge_forms ==
  (NumberCalled({"+", "-", "++", "--", "none"}) /\ NumberClosed) =>
    /\ (written.field = "+" /\ ~written.num.some) => HasCharge(1)
    /\ (written.field = "-" /\ ~written.num.some) => HasCharge(-1)
    /\ (written.field = "++" /\ ~written.num.some) => HasCharge(2)
    /\ (written.field = "--" /\ ~written.num.some) => HasCharge(-2)
    /\ (written.field = "+" /\ written.num.some /\ ~written.num.big /\ written.num.val <= 15) =>
         HasCharge(written.num.val)
    /\ (written.field = "-" /\ written.num.some /\ ~written.num.big /\ written.num.val <= 15) =>
         HasCharge(0 - written.num.val)
    /\ (written.field = "none" /\ ~written.num.some) => HasCharge(0)

\* `[C-15]` has given the bracket atom of carbon with charge -15.
C31_minus_fifteen ==
  /\ input = <<"[", "C", "-", "1", "5", "]">>
  /\ Len(emitted) = 1
  /\ HasCharge(0 - 15)
  /\ ~in_bracket

\* The first call of next has been made on `[C`, one sign and digits of a
\* magnitude above 15.
ChargeTooLarge ==
  /\ NumberCalled({"+", "-"})
  /\ written.num.some
  /\ (written.num.big \/ written.num.val > 15)

\* The first item is the charge error for the sign written, carrying the
\* signed value.
ChargeRefused ==
  /\ written.field = "+" =>
       /\ IsErr(emitted[1], "ChargeOverflow")
       /\ ~written.num.big => emitted[1].val.arg = written.num.val
  /\ written.field = "-" =>
       /\ IsErr(emitted[1], "ChargeUnderflow")
       /\ ~written.num.big => emitted[1].val.arg = 0 - written.num.val

\* C32: a bracket charge written as a sign and digits of a magnitude above
\* 15 fails, for every such magnitude, with ChargeOverflow (sign `+`) or
\* ChargeUnderflow (sign `-`) carrying the signed value.
C32_charge_beyond_15 == ChargeTooLarge => ChargeRefused

\* C32, amended: a bracket charge written as a sign and digits of a
\* magnitude from 16 to 127 fails with ChargeOverflow (sign `+`) or
\* ChargeUnderflow (sign `-`) carrying the signed value; a magnitude above
\* 127 fails with IntegerOverflow for either sign.
C32_charge_16_to_127 ==
  ChargeTooLarge =>
    IF ~written.num.big /\ written.num.val <= 127
    THEN ChargeRefused
    ELSE IsErr(emitted[1], "IntegerOverflow")

\* `[C-127]` has failed with ChargeUnderflow(-127).
C32_minus_127 ==
  /\ input = <<"[", "C", "-", "1", "2", "7", "]">>
  /\ Len(emitted) >= 1
  /\ IsErr(emitted[1], "ChargeUnderflow")
  /\ emitted[1].val.arg = 0 - 127

\* What try_fold_number reports for the digits written at cursor p: absent
\* when there are none, the value when it is at most max, IntegerOverflow
\* above it; the cursor is left after the last digit (of a number above
\* 2^31 - 1 the call may stop early, having failed).
FoldsTo(p, max) ==
  LET folded == try_fold_number(input, p, max)
  IN  /\ folded.some = written.num.some
      /\ ~written.num.big => folded.p = p + Len(written.num.text)
      /\ folded.some =>
           IF ~written.num.big /\ written.num.val <= max
           THEN folded.ok /\ folded.val = written.num.val
           ELSE ~folded.ok /\ folded.val.kind = "IntegerOverflow"

\* The number written fits the width whose largest value is max.
Fits(max) == written.num.some /\ ~written.num.big /\ written.num.val <= max

\* C33: the digits in the isotope, hydrogen-count and class positions of a
\* bracket are folded as one decimal number, all of them; a value above
\* 65535 (isotope, class) or 255 (hydrogen count) fails with
\* IntegerOverflow and is never wrapped or truncated; and no digits is
\* reported as absent, not as 0: no isotope, one hydrogen after a bare `H`,
\* InvalidClass after a bare `:`.
C33_numbers_folded ==
  /\ NumberCalled({"isotope"}) =>
       /\ FoldsTo(1, 65535)
       /\ (written.num.some /\ ~Fits(65535)) => IsErr(emitted[1], "IntegerOverflow")
       /\ (Fits(65535) /\ NumberClosed) =>
            IsCarbon(Some(written.num.val), HUnspecified, 0, 0)
       /\ (~written.num.some /\ NumberClosed) => IsCarbon(Nothing, HUnspecified, 0, 0)
  /\ NumberCalled({"hydrogens"}) =>
       /\ FoldsTo(3, 255)
       /\ (written.num.some /\ ~Fits(255)) => IsErr(emitted[1], "IntegerOverflow")
       /\ (Fits(255) /\ NumberClosed) =>
            IsCarbon(Nothing, Explicit(written.num.val), 0, 0)
       /\ (~written.num.some /\ NumberClosed) => IsCarbon(Nothing, Explicit(1), 0, 0)
  /\ NumberCalled({"class"}) =>
       /\ FoldsTo(3, 65535)
       /\ (written.num.some /\ ~Fits(65535)) => IsErr(emitted[1], "IntegerOverflow")
       /\ (Fits(65535) /\ NumberClosed) =>
            IsCarbon(Nothing, HUnspecified, 0, written.num.val)
       /\ ~written.num.some => IsErr(emitted[1], "InvalidClass")

\* `[CH256]` has failed with IntegerOverflow: 256 is not a hydrogen count.
C33_h256_overflows ==
  /\ input = <<"[", "C", "H", "2", "5", "6", "]">>
  /\ Len(emitted) >= 1
  /\ IsErr(emitted[1], "IntegerOverflow")

(* ------------------------- the bracket flag ------------------------- *)

\* The errors with which a character is refused because a bracket is open.
InBracketRejections ==
  {"NonBondInBracket", "UnexpectedLeftBracket", "UnexpectedPercent", "UnexpectedDash",
   "UnexpectedColon", "BondInBracket", "UnexpectedBracketedState"}

\* The call of next that is about to happen reads a character.
ReadsOne == chars < Len(input) /\ TokenIter_next

\* C34: whenever next returns an Ok token the in_bracket flag is false
\* afterwards; and as long as no call has returned an error, a call starts
\* with no bracket open and does not fail with one of the in-bracket
\* rejections.
C34_ok_leaves_no_bracket ==
  [][ReadsOne =>
       /\ Returns.ok => ~in_bracket'
       /\ AllOk(emitted) =>
            /\ ~in_bracket
            /\ ~Returns.ok => Returns.val.kind \notin InBracketRejections]_vars

\* `[C1` has failed at the `[` with UnclosedBracket, and the next call has
\* returned the Ok token RingClosure(1) with the bracket still open.
C34_ring_in_open_bracket ==
  /\ input = <<"[", "C", "1">>
  /\ Len(emitted) = 2
  /\ IsErr(emitted[1], "UnclosedBracket")
  /\ emitted[2] = Spanned(TRUE, Token("RingClosure", 1), 2, 3)
  /\ in_bracket

\* C35: once next has returned an Err the tokenizer does not resume: every
\* later call returns None, so an error is the last item that the calls of
\* next return and no token comes after it.
C35_error_ends_iteration ==
  /\ \A i \in 1..(Len(emitted) - 1) : emitted[i].ok
  /\ (Len(emitted) >= 1 /\ ~emitted[Len(emitted)].ok) =>
       (last.ret = Nothing \/ last.ret = Some(emitted[Len(emitted)]))

\* `%C` has failed at the `%` with InvalidRingNumber, and the next call has
\* returned the token of the carbon after it.
C35_token_after_error ==
  /\ input = <<"%", "C">>
  /\ Len(emitted) = 2
  /\ IsErr(emitted[1], "InvalidRingNumber")
  /\ emitted[2] = Spanned(TRUE, Token("UnbracketedAtom", UnbracketedAtom(SymElement(<<"C">>), FALSE)), 1, 2)

(* ------------------------- the spans of errors ------------------------- *)

SpanLen == 4
SpanAlphabet == {"[", "]", "C", "@", "+", ":", "2", "U+00E9", "U+20AC"}

InitSpans ==
  \E s \in UNION {[1..k -> SpanAlphabet] : k \in 0..SpanLen} :
    Fresh(s) /\ written = Text /\ NoOthers

SpecSpans == InitSpans /\ [][Next]_vars

\* C36: every error that next returns carries a span that starts at the
\* byte offset of the character the call read first, is not empty, and ends
\* within the input: start < end <= byte length of the input.
C36_error_spans ==
  [][(ReadsOne /\ ~Returns.ok) =>
       /\ Returns.start = ByteOffset(input, chars)
       /\ Returns.start < Returns.end
       /\ Returns.end <= ByteLen(input)]_vars

\* `C` and a three-byte character: the carbon has been returned, and the
\* call that read the three-byte character has failed with
\* UnexpectedCharacter spanning its three bytes, [1,4).
C36_three_bytes ==
  /\ input = <<"C", "U+20AC">>
  /\ Len(emitted) = 2
  /\ emitted[2] = Spanned(FALSE, [kind |-> "UnexpectedCharacter", arg |-> "U+20AC"], 1, 4)

(* ------------------------- the progress of next ------------------------- *)

\* C37: a call of next on an input that is not exhausted takes at least one
\* character and never moves the cursor back; so next has returned at most
\* as many items as the input has characters, and once it has returned None
\* it returns None again and changes nothing.
C37_next_progresses ==
  [][TokenIter_next =>
       /\ chars < Len(input) =>
            /\ chars' > chars
            /\ chars' <= Len(input)
            /\ Len(emitted') = Len(emitted) + 1
       /\ chars' >= chars
       /\ Len(emitted') <= chars'
       /\ Exhausted =>
            /\ last' = last
            /\ chars' = chars
            /\ emitted' = emitted]_vars

\* `[C@+` has been tokenized to its end by one call, which took all four
\* characters and failed with UnclosedBracket, and the call after it has
\* returned None.
C37_one_call_then_none ==
  /\ input = <<"[", "C", "@", "+">>
  /\ Len(emitted) = 1
  /\ IsErr(emitted[1], "UnclosedBracket")
  /\ chars = 4
  /\ Exhausted

(* ------------------------ the messages of errors ------------------------ *)

\* A SmilesError of the variant kind with the payload payload.
SmilesError(kind, payload) == [kind |-> kind, arg |-> payload]

\* A caller holds a SmilesError: any variant, with any payload of its type
\* (of the characters, three).
InitMessages ==
  /\ \E s \in {<<>>} : Fresh(s) /\ written = Text
  /\ \/ \E kind \in DOMAIN PlainMessages :
          arg = [kind |-> "SmilesError::fmt", val |-> SmilesError(kind, NoArg)]
     \/ \E kind \in {"InvalidElementName", "UnexpectedCharacter"},
           char \in {"x", "]", "U+00E9"} :
          arg = [kind |-> "SmilesError::fmt", val |-> SmilesError(kind, char)]
     \/ \E element \in Elements :
          arg = [kind |-> "SmilesError::fmt",
                 val |-> SmilesError("InvalidAromaticElement", element)]
     \/ \E n \in (RingNumMax + 1)..U8Max :
          arg = [kind |-> "SmilesError::fmt", val |-> SmilesError("RingNumberOverflow", n)]
     \/ \E n \in (0 - I8Max - 1)..(ChargeMin - 1) :
          arg = [kind |-> "SmilesError::fmt", val |-> SmilesError("ChargeUnderflow", n)]
     \/ \E n \in (ChargeMax + 1)..I8Max :
          arg = [kind |-> "SmilesError::fmt", val |-> SmilesError("ChargeOverflow", n)]
     \/ \E bond \in Bonds :
          arg = [kind |-> "SmilesError::fmt", val |-> SmilesError("BondInBracket", bond)]
     \/ \E symbol \in {SymElement(element) : element \in Elements} \cup {WildCard, Unspecified} :
          arg = [kind |-> "SmilesError::fmt",
                 val |-> SmilesError("InvalidUnbracketedAtom", symbol)]
  /\ ret = NotCalled
  /\ tokens = <<>>
  /\ parsed = NotCalled
  /\ smiles = Smiles_new

\* The caller formats the error: error.to_string(), as render does.
SmilesError_to_string ==
  /\ arg.kind = "SmilesError::fmt"
  /\ ret.kind = "NotCalled"
  /\ \E module \in BondModules : ret' = SmilesError_fmt(module, arg.val)
  /\ UNCHANGED token_vars
  /\ UNCHANGED <<arg, tokens, parsed, smiles>>

NextMessages == SmilesError_to_string

SpecMessages == InitMessages /\ [][NextMessages]_vars

\* The error has been formatted.
Formatted == arg.kind = "SmilesError::fmt" /\ ret.kind # "NotCalled"

\* C38: producing the message of any SmilesError terminates and gives a
\* string, the errors whose message holds the text of an AtomSymbol, an
\* Element or a Bond included.
C38_messages_terminate ==
  Formatted => (ret.kind = "Ok" /\ Len(ret.val) >= 1)

\* InvalidUnbracketedAtom(Fe) has been formatted: the call has used up the
\* stack in the fmt of the symbol and has returned nothing.
C38_iron_overflows ==
  /\ arg = [kind |-> "SmilesError::fmt",
            val |-> SmilesError("InvalidUnbracketedAtom", SymElement(<<"F", "e">>))]
  /\ ret = Aborted("stack overflow")

(* ----------------------- the cursor of SmilesParser ----------------------- *)

\* SmilesParser::new(tokens): the position of a fresh parser.
SmilesParser_new == [kind |-> "SmilesParser", val |-> 0]

\* SmilesParser::next at a position: the token returned and the position
\* left.
SmilesParser_next(toks, position) ==
  [token |-> get(toks, position),
   position |-> IF get(toks, position) # Nothing THEN position + 1 ELSE position]

\* A caller holds a fresh SmilesParser over the tokens of a string.
InitCursor ==
  \E s \in ParseStrings(ParseLen) :
    /\ Fresh(s)
    /\ written = Text
    /\ collect(s).ok
    /\ tokens = collect(s).val
    /\ arg = NotCalled
    /\ ret = NotCalled
    /\ parsed = SmilesParser_new
    /\ smiles = Smiles_new

\* The caller calls parser.next().
SmilesParser_next_call ==
  /\ parsed.kind = "SmilesParser"
  /\ ret' = [kind |-> "next", val |-> SmilesParser_next(tokens, parsed.val).token]
  /\ parsed' = [parsed EXCEPT !.val = SmilesParser_next(tokens, parsed.val).position]
  /\ UNCHANGED token_vars
  /\ UNCHANGED <<arg, tokens, smiles>>

\* The caller calls parser.advance().
SmilesParser_advance_call ==
  /\ parsed.kind = "SmilesParser"
  /\ ret' = [kind |-> "advance", val |-> Nothing]
  /\ parsed' = [parsed EXCEPT !.val = advance(tokens, parsed.val)]
  /\ UNCHANGED token_vars
  /\ UNCHANGED <<arg, tokens, smiles>>

NextCursor == SmilesParser_next_call \/ SmilesParser_advance_call

SpecCursor == InitCursor /\ [][NextCursor]_vars

\* The position of the parser in the caller's hands.
Position == parsed.val

\* The position is between 0 and the number of tokens, done() is true
\* exactly when current() is None, and peek_last() is None exactly when the
\* position is 0.
CursorInRange ==
  /\ 0 <= Position /\ Position <= Len(tokens)
  /\ done(tokens, Position) <=> (current(tokens, Position) = Nothing)
  /\ (peek_last(tokens, Position) = Nothing) <=> (Position = 0)

\* C39: over any sequence of next and advance calls the position never
\* decreases and grows by at most 1 per call, it is always between 0 and the
\* number of tokens, done() is true exactly when current() is None, and
\* peek_last() is None exactly when the position is 0.
C39_cursor_in_range ==
  /\ [](parsed.kind = "SmilesParser" => CursorInRange)
  /\ [][NextCursor => (Position' = Position \/ Position' = Position + 1)]_vars

\* The parser over the four tokens of `C.C1` has been moved to its end, and
\* the call of next there has returned None.
C39_at_the_end ==
  /\ input = <<"C", ".", "C", "1">>
  /\ parsed = [kind |-> "SmilesParser", val |-> 4]
  /\ ret = [kind |-> "next", val |-> Nothing]
  /\ done(tokens, Position)
=============================================================================
